---- MODULE Spec2Model ----
(***************************************************************************)
(* Fellowship Builder: the run-state simulation core (engine.ts), the      *)
(* seeded generator (rng.ts), the segment generator and content catalog    *)
(* (config.ts) and the reference driver (bot-runner.ts, runBot).           *)
(*                                                                         *)
(* Numbers: TLC integers are 32 bit and overflow is an error, so the       *)
(* generator's 62-bit product is carried in two 31-bit limbs [hi, lo]      *)
(* (value hi * 2^31 + lo) and rounded the way an IEEE double rounds it.    *)
(***************************************************************************)
EXTENDS Integers, Sequences, FiniteSets, TLC

\* catalog, chosenLeader, chosenSeed : the caller's config, leaderId and seed
\*                arguments of createRun and createRNG
\* phase        : "new" before createRun, "running" after it, "failed" when it threw
\* run          : the RunState the caller holds
\* gen          : the state of the caller's generator, createRNG(seed)
\* pending      : the options of getDraftOptions not yet applied (<<>>: none)
\* drafts       : the number of getDraftOptions calls made
\* overCalls    : the number of simulateSegment calls made on a finished run
\* prev, last   : the RunState before the last call, and what the call was
\*                and returned
\* hist         : the calls made on the run, for a second run to repeat
\* replay       : the second run: its RunState, generator and pending
\*                options, and how many calls of hist it has repeated
\* bot          : the locals of runBot
VARIABLES catalog, chosenLeader, chosenSeed, phase, run, gen, pending, drafts,
          overCalls, prev, last, hist, replay, bot

vars == <<catalog, chosenLeader, chosenSeed, phase, run, gen, pending, drafts,
          overCalls, prev, last, hist, replay, bot>>

\* ------------------------------------------------------------------------
\* rng.ts : SeededRNG
\* ------------------------------------------------------------------------

\* 0x7fffffff: the mask of next() and the divisor of nextFloat()
Mask31 == 2147483647

LcgMultiplier == 1103515245

LcgIncrement == 12345

\* 2^16, the limb used to multiply without leaving 32 bits
Half16 == 65536

\* significant bits of an IEEE double
DoubleBits == 53

Pow2(n) == 2 ^ n

\* "const x = v; ..." : F applied to the value v
With(v, F(_)) == F(v)

\* the number of significant bits of x, 0 <= x < 2^31
BitLen(x) ==
    IF x >= 1073741824 THEN 31
    ELSE CHOOSE k \in 0..30 : x < Pow2(k) /\ (k = 0 \/ x >= Pow2(k - 1))

\* a + b over the limbs, b < 2^31
LimbAdd(v, b) ==
    IF v.lo > Mask31 - b
    THEN [hi |-> v.hi + 1, lo |-> (v.lo - (Mask31 - b)) - 1]
    ELSE [hi |-> v.hi, lo |-> v.lo + b]

\* the exact product state * 1103515245 as limbs (0 <= state < 2^31)
ExactProduct(state) ==
    LET a == state \div Half16
        b == state % Half16
        c == LcgMultiplier \div Half16
        d == LcgMultiplier % Half16
        mid == a * d + b * c
        m1 == mid \div 32768
        m0 == mid % 32768
    IN  LimbAdd([hi |-> 2 * (a * c) + m1, lo |-> m0 * Half16], b * d)

\* round-to-nearest-even of a limb value to 53 significant bits: what a
\* JavaScript number keeps of an integer result
RoundDouble(v) ==
    LET k == (31 + BitLen(v.hi)) - DoubleBits
    IN  IF v.hi = 0 \/ k <= 0 THEN v
        ELSE LET g == Pow2(k)
                 r == v.lo % g
                 odd == (v.lo \div g) % 2 = 1
                 down == v.lo - r
                 up == (2 * r > g) \/ (2 * r = g /\ odd)
             IN  IF ~up THEN [hi |-> v.hi, lo |-> down]
                 ELSE IF down = (Mask31 - g) + 1 THEN [hi |-> v.hi + 1, lo |-> 0]
                 ELSE [hi |-> v.hi, lo |-> down + g]

\* next(): this.state = (this.state * 1103515245 + 12345) & 0x7fffffff, in
\* double arithmetic; the & keeps the low 31 bits
nextWrapExact(state) == LimbAdd(ExactProduct(state), LcgIncrement).lo

next(state) ==
    RoundDouble(LimbAdd(RoundDouble(ExactProduct(state)), LcgIncrement)).lo

\* the exact product s * k as limbs, 0 <= s < 2^31 and 0 <= k < 2^10
SmallProduct(s, k) ==
    LET u == (s \div Half16) * k
        w == (s % Half16) * k
    IN  LimbAdd([hi |-> u \div 32768, lo |-> (u % 32768) * Half16], w)

\* the exact product s * n as limbs, 0 <= s < 2^31 and 0 <= n < 2^20
Product(s, n) ==
    LET p1 == SmallProduct(s, n \div 1024)
        p0 == SmallProduct(s, n % 1024)
    IN  LimbAdd([hi |-> (p1.hi * 1024) + (p1.lo \div 2097152) + p0.hi,
                 lo |-> (p1.lo % 2097152) * 1024], p0.lo)

\* floor(s * n / Mask31): with v = hi * 2^31 + lo = hi * Mask31 + (hi + lo)
\* and hi + lo < 2 * Mask31
MulDivFloor(s, n) ==
    LET p == Product(s, n)
    IN  p.hi + (IF p.lo >= Mask31 - p.hi THEN 1 ELSE 0)

\* nextFloat(): next() / 0x7fffffff. The float is kept as its numerator
\* (the new state) over Mask31.
nextFloat(rng) == LET s == next(rng) IN [value |-> s, rng |-> s]

\* Math.floor(f * n) for the float f = num / Mask31
FloorTimes(num, n) == MulDivFloor(num, n)

\* f < t / 10 for the float f = num / Mask31
FloatBelowTenths(num, t) == FloorTimes(num, 10) < t

\* nextInt over a range one too wide
nextIntWide(rng, min, max) ==
    LET f == nextFloat(rng)
    IN  [value |-> FloorTimes(f.value, (max - min) + 2) + min, rng |-> f.rng]

\* nextInt(min, max)
nextInt(rng, min, max) ==
    LET f == nextFloat(rng)
    IN  [value |-> FloorTimes(f.value, (max - min) + 1) + min, rng |-> f.rng]

\* [result[i], result[j]] = [result[j], result[i]] that loses result[i]
SwapOverwrite(result, i, j) == [result EXCEPT ![i] = result[j]]

\* [result[i], result[j]] = [result[j], result[i]], i and j counted from 1;
\* result[length] reads undefined and the write to it lengthens the array
Swap(result, i, j) ==
    IF j <= Len(result)
    THEN [result EXCEPT ![i] = result[j], ![j] = result[i]]
    ELSE Append([result EXCEPT ![i] = "undefined"], result[i])

RECURSIVE shuffleFrom(_, _, _)
\* the loop of shuffle from index i (counted from 0) down to 1
shuffleFrom(rng, result, i) ==
    IF i <= 0 THEN [value |-> result, rng |-> rng]
    ELSE With(nextInt(rng, 0, i), LAMBDA j :
         shuffleFrom(j.rng, Swap(result, i + 1, j.value + 1), i - 1))

\* shuffle(array): Fisher-Yates on a copy of the array
shuffle(rng, array) == shuffleFrom(rng, array, Len(array) - 1)

\* the caller's array once shuffle has returned result: shuffle swaps in
\* result = [...array], a copy
ArrayAfterShuffle(array, result) == array

\* pick drawing its index before it looks at the length
pickAfterDraw(rng, array) ==
    IF Len(array) = 0
    THEN [error |-> TRUE, undef |-> FALSE, index |-> 0, rng |-> next(rng)]
    ELSE LET i == nextInt(rng, 0, Len(array) - 1)
         IN  [error |-> FALSE, undef |-> i.value >= Len(array),
              index |-> i.value + 1, rng |-> i.rng]

\* pick(array): throws on an empty array, before any draw
\* (error). array[length] is undefined in JavaScript: every caller reads a
\* property of the result at once, which throws as well (undef).
pick(rng, array) ==
    IF Len(array) = 0
    THEN [error |-> TRUE, undef |-> FALSE, index |-> 0, rng |-> rng]
    ELSE LET i == nextInt(rng, 0, Len(array) - 1)
         IN  [error |-> FALSE, undef |-> i.value >= Len(array),
              index |-> i.value + 1, rng |-> i.rng]

\* the element a successful pick returns
Picked(p, array) == array[p.index]

PickFailed(p) == p.error \/ p.undef

\* the constructor's string hash: hash = ((hash << 5) - hash + char) | 0,
\* a 32-bit wrap of 31 * hash + char, kept as two 16-bit halves
HashStep(h, char) ==
    LET lo == 31 * h.lo + char
        hi == 31 * h.hi + (lo \div Half16)
    IN  [hi |-> hi % Half16, lo |-> lo % Half16]

RECURSIVE HashString(_, _)
HashString(seed, n) ==
    IF n = 0 THEN [hi |-> 0, lo |-> 0]
    ELSE HashStep(HashString(seed, n - 1), seed[n])

\* Math.abs of the signed 32-bit value of the two halves
AbsInt32(h) ==
    IF h.hi < 32768 THEN h.hi * Half16 + h.lo
    ELSE ((Half16 - h.hi) * Half16) - h.lo

\* new SeededRNG(seed): a string seed is [str |-> TRUE, chars |-> its
\* character codes], a numeric seed [str |-> FALSE, num |-> the integer];
\* Math.abs(...) || 1
createRNG(seed) ==
    LET a == IF seed.str
             THEN AbsInt32(HashString(seed.chars, Len(seed.chars)))
             ELSE (IF seed.num < 0 THEN 0 - seed.num ELSE seed.num)
    IN  IF a = 0 THEN 1 ELSE a


\* ------------------------------------------------------------------------
\* types.ts and config.ts : the content catalog
\* ------------------------------------------------------------------------

StatTypes == {"combat", "survival", "social", "chaos"}

\* Object.entries order of a Stats object
StatOrder == <<"combat", "survival", "social", "chaos">>

EmptyMap == [x \in {} |-> 0]

\* obj[key] || 0
Lookup(obj, key) == IF key \in DOMAIN obj THEN obj[key] ELSE 0

Leader(id, c, sv, so, ch, hp, slots, pool) ==
    [id |-> id,
     baseStats |-> [combat |-> c, survival |-> sv, social |-> so, chaos |-> ch],
     bonusHp |-> hp, baseMemberSlots |-> slots, tacticsPoolId |-> pool]

leaders ==
    << Leader("warlord", 5, 2, 1, 2, 15, 3, "military"),
       Leader("diplomat", 2, 2, 5, 1, 10, 4, "political"),
       Leader("ranger", 2, 5, 1, 2, 20, 3, "wilderness"),
       Leader("trickster", 2, 2, 2, 5, 12, 3, "tricks"),
       Leader("balanced", 2, 2, 2, 2, 20, 4, "null") >>

Member(id, stat, rank, base, scaling) ==
    [id |-> id, primaryStats |-> <<stat>>, rank |-> rank,
     baseValue |-> base, scaling |-> scaling]

memberTemplates ==
    << Member("soldier", "combat", 1, 2, 1), Member("guard", "combat", 1, 1, 2),
       Member("scout", "survival", 1, 2, 1), Member("herbalist", "survival", 1, 1, 2),
       Member("bard", "social", 1, 2, 1), Member("merchant", "social", 1, 1, 2),
       Member("gambler", "chaos", 1, 2, 1), Member("pickpocket", "chaos", 1, 1, 2),
       Member("knight", "combat", 2, 3, 2), Member("berserker", "combat", 2, 4, 1),
       Member("tracker", "survival", 2, 3, 2), Member("healer", "survival", 2, 4, 1),
       Member("noble", "social", 2, 3, 2), Member("spy", "social", 2, 4, 1),
       Member("alchemist", "chaos", 2, 3, 2), Member("saboteur", "chaos", 2, 4, 1),
       Member("champion", "combat", 3, 5, 3), Member("assassin", "combat", 3, 6, 2),
       Member("druid", "survival", 3, 5, 3), Member("pathfinder", "survival", 3, 6, 2),
       Member("ambassador", "social", 3, 5, 3), Member("prophet", "social", 3, 6, 2),
       Member("wildmage", "chaos", 3, 5, 3), Member("anarchist", "chaos", 3, 6, 2) >>

Gear(id, type, value, stat) ==
    [id |-> id, type |-> type, value |-> value, statType |-> stat]

gearTemplates ==
    << Gear("extra_slot_1", "extra_slot", 1, "none"),
       Gear("heal_small", "heal", 20, "none"),
       Gear("heal_medium", "heal", 40, "none"),
       Gear("auto_combat", "auto_success", 1, "combat"),
       Gear("auto_survival", "auto_success", 1, "survival"),
       Gear("auto_social", "auto_success", 1, "social"),
       Gear("auto_chaos", "auto_success", 1, "chaos") >>

Tactic(id, type, value, stat) ==
    [id |-> id, type |-> type, value |-> value, statType |-> stat]

tacticTemplates ==
    << Tactic("boost_combat_perm", "permanent_boost", 5, "combat"),
       Tactic("boost_survival_perm", "permanent_boost", 5, "survival"),
       Tactic("boost_social_perm", "permanent_boost", 5, "social"),
       Tactic("boost_chaos_perm", "permanent_boost", 5, "chaos"),
       Tactic("next_combat_boost", "next_segment_boost", 100, "combat"),
       Tactic("next_survival_boost", "next_segment_boost", 100, "survival"),
       Tactic("next_social_boost", "next_segment_boost", 100, "social"),
       Tactic("next_chaos_boost", "next_segment_boost", 100, "chaos"),
       Tactic("skip_event", "skip_event", 1, "none") >>

tacticPools ==
    [military |->
       << Tactic("shield_wall", "permanent_boost", 6, "combat"),
          Tactic("flanking_maneuver", "next_segment_boost", 150, "combat"),
          Tactic("tactical_retreat", "skip_event", 1, "none"),
          Tactic("intimidation", "permanent_boost", 5, "social"),
          Tactic("field_medicine", "permanent_boost", 4, "survival"),
          Tactic("commanders_presence", "next_segment_boost", 100, "social") >>,
     political |->
       << Tactic("court_intrigue", "permanent_boost", 6, "social"),
          Tactic("silver_tongue", "next_segment_boost", 150, "social"),
          Tactic("diplomatic_immunity", "skip_event", 1, "none"),
          Tactic("hire_mercenaries", "permanent_boost", 5, "combat"),
          Tactic("trade_routes", "permanent_boost", 4, "survival"),
          Tactic("bodyguard_detail", "next_segment_boost", 100, "combat") >>,
     wilderness |->
       << Tactic("foraging_expertise", "permanent_boost", 6, "survival"),
          Tactic("natures_blessing", "next_segment_boost", 150, "survival"),
          Tactic("camouflage", "skip_event", 1, "none"),
          Tactic("trappers_cunning", "permanent_boost", 5, "chaos"),
          Tactic("rangers_tales", "permanent_boost", 4, "social"),
          Tactic("primal_instinct", "next_segment_boost", 100, "chaos") >>,
     tricks |->
       << Tactic("chaos_gambit", "permanent_boost", 6, "chaos"),
          Tactic("wild_card", "next_segment_boost", 150, "chaos"),
          Tactic("smoke_and_mirrors", "skip_event", 1, "none"),
          Tactic("dirty_fighting", "permanent_boost", 5, "combat"),
          Tactic("scavenger", "permanent_boost", 4, "survival"),
          Tactic("misdirection", "next_segment_boost", 100, "combat") >>]

\* defaultConfig.baseHp
DefaultBaseHp == 135

\* the number of name/description templates of each stat in eventTemplates
EventTemplateCount == 4

\* a segment type is kept as the stats its name splits into at "/"
singleStatSegments == << <<"combat">>, <<"survival">>, <<"social">>, <<"chaos">> >>

dualStatSegments ==
    << <<"combat", "survival">>, <<"combat", "social">>, <<"combat", "chaos">>,
       <<"survival", "social">>, <<"survival", "chaos">>, <<"social", "chaos">> >>

\* for (let i = 1; i <= 10; i++)
SegmentCount == 10

\* for (let e = 0; e < 3; e++)
EventsPerSegment == 3

\* an event whose mitigated damage is rounded up
createEventCeil(id, name, checkType, baseThreshold, segmentIndex) ==
    LET scaledThreshold == baseThreshold + (segmentIndex \div 2)
    IN  [id |-> id, name |-> name, checkType |-> checkType,
         thresholds |-> [st \in {checkType[k] : k \in 1..Len(checkType)} |-> scaledThreshold],
         damage |-> [success |-> 0,
                     mitigated |-> 3 + ((4 * segmentIndex + 9) \div 10),
                     failure |-> 7 + segmentIndex]]

\* createEvent: a check type is kept as the stats it splits into at "+"
createEvent(id, name, checkType, baseThreshold, segmentIndex) ==
    LET scaledThreshold == baseThreshold + (segmentIndex \div 2)
    IN  [id |-> id, name |-> name, checkType |-> checkType,
         thresholds |-> [st \in {checkType[k] : k \in 1..Len(checkType)} |-> scaledThreshold],
         damage |-> [success |-> 0,
                     mitigated |-> 3 + ((4 * segmentIndex) \div 10),
                     failure |-> 7 + segmentIndex]]

\* the single/dual draw of generateSegments: 80% single for i <= 4, 50% for
\* i <= 7, 20% after
SingleTenths(i) == IF i <= 4 THEN 8 ELSE IF i <= 7 THEN 5 ELSE 2

\* an event loop that checks both stats in every event of a dual-stat
\* segment
GenerateEventBoth(rng, stats, i, e) ==
    With(nextInt(rng, 0, EventTemplateCount - 1), LAMBDA t :
    IF t.value >= EventTemplateCount THEN [error |-> TRUE, rng |-> t.rng]
    ELSE [error |-> FALSE, rng |-> t.rng,
          event |-> createEvent(<<i, e + 1>>, <<stats[1], t.value>>,
                                <<stats[1], stats[Len(stats)]>>, 3 + e, i)])

\* one pass of the body of the event loop of generateSegments: event e
\* (0-based) of segment i
GenerateEvent(rng, stats, i, e) ==
    With(IF Len(stats) = 2 THEN pick(rng, << <<stats[1]>>, <<stats[2]>>, stats >>)
         ELSE [error |-> FALSE, undef |-> FALSE, index |-> 1, rng |-> rng],
         LAMBDA c :
    IF PickFailed(c) THEN [error |-> TRUE, rng |-> c.rng]
    ELSE
    With(IF Len(stats) = 2 THEN Picked(c, << <<stats[1]>>, <<stats[2]>>, stats >>)
         ELSE <<stats[1]>>,
         LAMBDA checkType :
    With(nextInt(c.rng, 0, EventTemplateCount - 1), LAMBDA t :
    IF t.value >= EventTemplateCount THEN [error |-> TRUE, rng |-> t.rng]
    ELSE [error |-> FALSE, rng |-> t.rng,
          event |-> createEvent(<<i, e + 1>>, <<checkType[1], t.value>>,
                                checkType, 3 + e, i)])))

\* the event loop of generateSegments after n passes
RECURSIVE GenerateEvents(_, _, _, _)
GenerateEvents(rng, stats, i, n) ==
    IF n = 0 THEN [error |-> FALSE, events |-> <<>>, rng |-> rng]
    ELSE
    With(GenerateEvents(rng, stats, i, n - 1), LAMBDA before :
    IF before.error THEN before
    ELSE
    With(GenerateEvent(before.rng, stats, i, n - 1), LAMBDA ev :
    IF ev.error THEN [error |-> TRUE, events |-> <<>>, rng |-> ev.rng]
    ELSE [error |-> FALSE, events |-> Append(before.events, ev.event),
          rng |-> ev.rng]))

\* one pass of the body of the segment loop of generateSegments: segment i
GenerateSegment(rng, i) ==
    With(nextFloat(rng), LAMBDA f :
    With(IF FloatBelowTenths(f.value, SingleTenths(i))
         THEN singleStatSegments ELSE dualStatSegments,
         LAMBDA pool :
    With(pick(f.rng, pool), LAMBDA ty :
    IF PickFailed(ty) THEN [error |-> TRUE, rng |-> ty.rng]
    ELSE
    With(GenerateEvents(ty.rng, Picked(ty, pool), i, EventsPerSegment), LAMBDA ev :
    IF ev.error THEN [error |-> TRUE, rng |-> ev.rng]
    ELSE [error |-> FALSE, rng |-> ev.rng,
          segment |-> [index |-> i, type |-> Picked(ty, pool),
                       events |-> ev.events]]))))

\* the segment loop of generateSegments after n passes
RECURSIVE GenerateUpTo(_, _)
GenerateUpTo(rng, n) ==
    IF n = 0 THEN [error |-> FALSE, segments |-> <<>>, rng |-> rng]
    ELSE
    With(GenerateUpTo(rng, n - 1), LAMBDA before :
    IF before.error THEN before
    ELSE
    With(GenerateSegment(before.rng, n), LAMBDA seg :
    IF seg.error THEN [error |-> TRUE, segments |-> <<>>, rng |-> seg.rng]
    ELSE [error |-> FALSE, segments |-> Append(before.segments, seg.segment),
          rng |-> seg.rng]))

\* generateSegments(rng); error: a throw
generateSegments(rng) == GenerateUpTo(rng, SegmentCount)

\* ------------------------------------------------------------------------
\* engine.ts : helpers
\* ------------------------------------------------------------------------

Includes(seq, x) == \E k \in 1..Len(seq) : seq[k] = x

RECURSIVE SumSeq(_)
SumSeq(seq) == IF seq = <<>> THEN 0 ELSE Head(seq) + SumSeq(Tail(seq))

\* Math.floor(rng.nextFloat() * 1000000)
IdRange == 1000000

\* generateId(prefix, rng): the string `${prefix}_${n}` is kept as <<prefix, n>>
generateId(prefix, rng) ==
    LET f == nextFloat(rng)
    IN  [value |-> <<prefix, FloorTimes(f.value, IdRange)>>, rng |-> f.rng]

isPrimaryStat(member, statType) == Includes(member.primaryStats, statType)

\* member stats that leave out the boosts of the stats that are not primary
getMemberAllStatsPrimaryOnly(member, permanentBoosts) ==
    LET memberBoosts == IF member.id \in DOMAIN permanentBoosts
                        THEN permanentBoosts[member.id] ELSE EmptyMap
        baseContribution == member.baseValue + member.scaling * (member.level - 1)
    IN  [st \in StatTypes |->
           IF Includes(member.primaryStats, st)
           THEN baseContribution + Lookup(memberBoosts, st)
           ELSE 0]

\* getMemberAllStats: a stat the result leaves undefined reads as 0, which
\* computeStats skips (if (value))
getMemberAllStats(member, permanentBoosts) ==
    LET memberBoosts == IF member.id \in DOMAIN permanentBoosts
                        THEN permanentBoosts[member.id] ELSE EmptyMap
        baseContribution == member.baseValue + member.scaling * (member.level - 1)
    IN  [st \in StatTypes |->
           IF Includes(member.primaryStats, st)
           THEN baseContribution + Lookup(memberBoosts, st)
           ELSE IF Lookup(memberBoosts, st) > 0 THEN Lookup(memberBoosts, st)
           ELSE 0]

\* Math.floor(stat * (1 + boost / 100)); exact in doubles whenever the
\* product is, as it is for the catalog's percentages (multiples of 50)
ScaleByPercent(value, boost) == (value * (100 + boost)) \div 100

\* computeStats(runState, config, temporaryBoosts); no temporary boosts is
\* the empty map
computeStats(runState, temporaryBoosts) ==
    LET leader == runState.leader
        base == [st \in StatTypes |->
                   Lookup(leader.baseStats, st)
                   + SumSeq([k \in 1..Len(runState.members) |->
                               getMemberAllStats(runState.members[k],
                                                 runState.permanentBoosts)[st]])]
    IN  [st \in StatTypes |->
           IF Lookup(temporaryBoosts, st) # 0
           THEN ScaleByPercent(base[st], temporaryBoosts[st])
           ELSE base[st]]

\* boosts in which a later tactic of a stat replaces the earlier ones
getTemporaryBoostsLatest(runState) ==
    LET active(t) == /\ t.type = "next_segment_boost"
                     /\ ~t.used
                     /\ t.expiresAfterSegment = runState.segmentIndex
                     /\ t.statType # "none"
        of(st) == SelectSeq(runState.tactics, LAMBDA t : active(t) /\ t.statType = st)
    IN  [st \in {x \in StatTypes : Len(of(x)) > 0} |-> of(st)[Len(of(st))].value]

\* getTemporaryBoosts(runState)
getTemporaryBoosts(runState) ==
    LET active(t) == /\ t.type = "next_segment_boost"
                     /\ ~t.used
                     /\ t.expiresAfterSegment = runState.segmentIndex
                     /\ t.statType # "none"
        of(st) == SelectSeq(runState.tactics, LAMBDA t : active(t) /\ t.statType = st)
    IN  [st \in {x \in StatTypes : Len(of(x)) > 0} |->
           SumSeq([k \in 1..Len(of(st)) |-> of(st)[k].value])]

\* hasAutoSuccess(runState, statType): the first unused token of the stat,
\* as its position in runState.gear, 0 when there is none
hasAutoSuccess(runState, statType) ==
    LET hits == {k \in 1..Len(runState.gear) :
                   /\ runState.gear[k].type = "auto_success"
                   /\ runState.gear[k].statType = statType
                   /\ ~runState.gear[k].used}
    IN  IF hits = {} THEN 0 ELSE CHOOSE k \in hits : \A j \in hits : k <= j

\* parseCheckType(checkType)
parseCheckType(checkType) == checkType

\* ------------------------------------------------------------------------
\* engine.ts : createRun
\* ------------------------------------------------------------------------

\* the loop over config.startingMemberIds after n passes
RECURSIVE StartingMembers(_, _, _)
StartingMembers(config, rng, n) ==
    IF n = 0 THEN [members |-> <<>>, rng |-> rng]
    ELSE LET before == StartingMembers(config, rng, n - 1)
             found == SelectSeq(memberTemplates,
                                LAMBDA m : m.id = config.startingMemberIds[n])
             id == generateId("member", before.rng)
         IN  IF Len(found) = 0 THEN before
             ELSE [members |->
                     Append(before.members,
                            [id |-> id.value, templateId |-> found[1].id,
                             primaryStats |-> found[1].primaryStats,
                             rank |-> found[1].rank, baseValue |-> found[1].baseValue,
                             scaling |-> found[1].scaling, level |-> 1]),
                   rng |-> id.rng]

ZeroStats == [st \in StatTypes |-> 0]

\* a new run that starts at the base hp, without the leader's bonus
NewRunStateNoBonus(config, leader, rngSeed, members, segments) ==
    [leaderId |-> leader.id, leader |-> leader,
     hp |-> config.baseHp,
     maxHp |-> config.baseHp + leader.bonusHp,
     stats |-> ZeroStats, members |-> members,
     memberSlots |-> leader.baseMemberSlots,
     segmentIndex |-> 1, segments |-> segments,
     gear |-> <<>>, tactics |-> <<>>, permanentBoosts |-> EmptyMap,
     rngSeed |-> rngSeed, eventLog |-> <<>>, skipNextEvent |-> FALSE]

\* the RunState createRun builds before it computes the stats
NewRunState(config, leader, rngSeed, members, segments) ==
    [leaderId |-> leader.id, leader |-> leader,
     hp |-> config.baseHp + leader.bonusHp,
     maxHp |-> config.baseHp + leader.bonusHp,
     stats |-> ZeroStats, members |-> members,
     memberSlots |-> leader.baseMemberSlots,
     segmentIndex |-> 1, segments |-> segments,
     gear |-> <<>>, tactics |-> <<>>, permanentBoosts |-> EmptyMap,
     rngSeed |-> rngSeed, eventLog |-> <<>>, skipNextEvent |-> FALSE]

\* createRun drawing from the caller's generator in place of one of its own
createRunSharedGenerator(config, leaderId, rngSeed) ==
    With(SelectSeq(config.leaders, LAMBDA l : l.id = leaderId), LAMBDA found :
    IF Len(found) = 0 THEN [error |-> TRUE]
    ELSE
    With(StartingMembers(config, gen, Len(config.startingMemberIds)), LAMBDA sm :
    With(generateSegments(sm.rng), LAMBDA made :
    IF made.error THEN [error |-> TRUE]
    ELSE
    With(NewRunState(config, found[1], rngSeed, sm.members, made.segments),
         LAMBDA runState :
    [error |-> FALSE,
     runState |-> [runState EXCEPT !.stats = computeStats(runState, EmptyMap)]]))))

\* createRun taking the first leader of the catalog for an unknown id
createRunDefaultLeader(config, leaderId, rngSeed) ==
    With(SelectSeq(config.leaders, LAMBDA l : l.id = leaderId), LAMBDA found :
    With(StartingMembers(config, createRNG(rngSeed), Len(config.startingMemberIds)),
         LAMBDA sm :
    With(generateSegments(sm.rng), LAMBDA made :
    IF made.error THEN [error |-> TRUE]
    ELSE
    With(NewRunState(config, IF Len(found) = 0 THEN config.leaders[1] ELSE found[1],
                     rngSeed, sm.members, made.segments),
         LAMBDA runState :
    [error |-> FALSE,
     runState |-> [runState EXCEPT !.stats = computeStats(runState, EmptyMap)]]))))

\* createRun(config, leaderId, rngSeed); error: the throw
createRun(config, leaderId, rngSeed) ==
    With(SelectSeq(config.leaders, LAMBDA l : l.id = leaderId), LAMBDA found :
    IF Len(found) = 0 THEN [error |-> TRUE]
    ELSE
    With(StartingMembers(config, createRNG(rngSeed), Len(config.startingMemberIds)),
         LAMBDA sm :
    With(generateSegments(sm.rng), LAMBDA made :
    IF made.error THEN [error |-> TRUE]
    ELSE
    With(NewRunState(config, found[1], rngSeed, sm.members, made.segments),
         LAMBDA runState :
    [error |-> FALSE,
     runState |-> [runState EXCEPT !.stats = computeStats(runState, EmptyMap)]]))))

\* ------------------------------------------------------------------------
\* engine.ts : resolveEvent
\* ------------------------------------------------------------------------

Compare(value, threshold) ==
    IF value > threshold THEN "pass"
    ELSE IF value = threshold THEN "tie" ELSE "fail"

\* value = threshold + 10 of an auto-success token
AutoSuccessMargin == 10

\* the gear of updatedState with the token at position auto marked used
\* (every token that carries its instanceId); auto = 0: no token
MarkUsed(updatedState, auto) ==
    IF auto = 0 THEN updatedState
    ELSE [updatedState EXCEPT !.gear =
            [j \in 1..Len(updatedState.gear) |->
               IF updatedState.gear[j].instanceId = updatedState.gear[auto].instanceId
               THEN [updatedState.gear[j] EXCEPT !.used = TRUE]
               ELSE updatedState.gear[j]]]

\* the for loop over checkStats after n passes: the updated state, the
\* results and the log lines
RECURSIVE CheckStats(_, _, _, _)
CheckStats(runState, event, stats, n) ==
    IF n = 0 THEN [runState |-> runState, results |-> <<>>, log |-> <<>>]
    ELSE
    With(CheckStats(runState, event, stats, n - 1), LAMBDA before :
    With(parseCheckType(event.checkType)[n], LAMBDA stat :
    With(Lookup(event.thresholds, stat), LAMBDA threshold :
    With(hasAutoSuccess(before.runState, stat), LAMBDA auto :
    With(IF auto = 0 THEN stats[stat] ELSE threshold + AutoSuccessMargin, LAMBDA value :
    [runState |-> MarkUsed(before.runState, auto),
     results |-> Append(before.results,
                        [stat |-> stat, value |-> value, threshold |-> threshold,
                         result |-> Compare(value, threshold)]),
     log |-> before.log
             \o (IF auto = 0 THEN <<>> ELSE <<[line |-> "auto", stat |-> stat]>>)
             \o <<[line |-> "check", stat |-> stat, value |-> value,
                   threshold |-> threshold,
                   result |-> Compare(value, threshold)]>>])))))

\* an outcome that one passed check is enough to make a SUCCESS
OverallAnyPass(results) ==
    IF \E k \in 1..Len(results) : results[k].result = "pass" THEN "SUCCESS"
    ELSE IF \E k \in 1..Len(results) : results[k].result = "tie"
    THEN "MITIGATED_FAILURE"
    ELSE "FAILURE"

\* any fail: FAILURE; else any tie: MITIGATED_FAILURE; else SUCCESS
Overall(results) ==
    IF \E k \in 1..Len(results) : results[k].result = "fail" THEN "FAILURE"
    ELSE IF \E k \in 1..Len(results) : results[k].result = "tie"
    THEN "MITIGATED_FAILURE"
    ELSE "SUCCESS"

DamageOf(event, outcome) ==
    IF outcome = "SUCCESS" THEN event.damage.success
    ELSE IF outcome = "MITIGATED_FAILURE" THEN event.damage.mitigated
    ELSE event.damage.failure

\* the skip that leaves the flag set
SkipEventKeepsFlag(runState) ==
    [outcome |-> "SUCCESS",
     log |-> <<[line |-> "SKIPPED"]>>,
     damage |-> 0,
     runState |-> runState,
     results |-> <<>>]

\* what resolveEvent returns when the skip flag is set
SkipEvent(runState) ==
    [outcome |-> "SUCCESS",
     log |-> <<[line |-> "SKIPPED"]>>,
     damage |-> 0,
     runState |-> [runState EXCEPT !.skipNextEvent = FALSE],
     results |-> <<>>]

\* resolveEvent(runState, event, stats, rng): rng is never used
resolveEvent(runState, event, stats) ==
    IF runState.skipNextEvent THEN SkipEvent(runState)
    ELSE
    With(CheckStats(runState, event, stats, Len(parseCheckType(event.checkType))),
         LAMBDA c :
    With(Overall(c.results), LAMBDA outcome :
    [outcome |-> outcome,
     log |-> <<[line |-> "event"]>> \o c.log
             \o <<[line |-> "Result", outcome |-> outcome,
                   damage |-> DamageOf(event, outcome)]>>,
     damage |-> DamageOf(event, outcome),
     runState |-> c.runState,
     results |-> c.results]))

\* ------------------------------------------------------------------------
\* engine.ts : simulateSegment
\* ------------------------------------------------------------------------

\* the damage applied without the floor of zero
HpAfterUnclamped(hp, damage) == hp - damage

\* Math.max(0, hp - damage)
HpAfter(hp, damage) == IF hp - damage > 0 THEN hp - damage ELSE 0

\* one pass of the body of the event loop of simulateSegment on the loop's
\* locals acc: state, log, successes, mitigated, failures, totalDamage, and
\* dead (the return inside the loop)
ProcessEvent(acc, i, result) ==
    [state |-> [result.runState EXCEPT !.hp = HpAfter(acc.state.hp, result.damage)],
     log |-> acc.log \o <<[line |-> "Event", i |-> i]>> \o result.log
             \o (IF HpAfter(acc.state.hp, result.damage) <= 0
                 THEN <<[line |-> "FALLEN"]>> ELSE <<>>),
     successes |-> acc.successes + (IF result.outcome = "SUCCESS" THEN 1 ELSE 0),
     mitigated |-> acc.mitigated
                   + (IF result.outcome = "MITIGATED_FAILURE" THEN 1 ELSE 0),
     failures |-> acc.failures + (IF result.outcome = "FAILURE" THEN 1 ELSE 0),
     totalDamage |-> acc.totalDamage + result.damage,
     dead |-> HpAfter(acc.state.hp, result.damage) <= 0]

\* the event loop without the return on death: every event is resolved
RECURSIVE ProcessAllEvents(_, _, _, _)
ProcessAllEvents(acc, segment, stats, n) ==
    IF n = 0 THEN acc
    ELSE
    With(ProcessAllEvents(acc, segment, stats, n - 1), LAMBDA before :
    With(ProcessEvent(before, n, resolveEvent(before.state, segment.events[n], stats)),
         LAMBDA after :
    [after EXCEPT !.dead = before.dead \/ after.dead]))

\* the event loop of simulateSegment after n passes; a pass after the
\* return is not made
RECURSIVE ProcessEvents(_, _, _, _)
ProcessEvents(acc, segment, stats, n) ==
    IF n = 0 THEN acc
    ELSE
    With(ProcessEvents(acc, segment, stats, n - 1), LAMBDA before :
    IF before.dead THEN before
    ELSE ProcessEvent(before, n,
                      resolveEvent(before.state, segment.events[n], stats)))

\* a level for the first member only
LevelUpFirst(members) ==
    [k \in 1..Len(members) |->
       IF k = 1 THEN [members[k] EXCEPT !.level = @ + 1] ELSE members[k]]

\* members.map(m => ({ ...m, level: m.level + 1 }))
LevelUpAll(members) ==
    [k \in 1..Len(members) |-> [members[k] EXCEPT !.level = @ + 1]]

\* if (successes >= 2)
LevelUpSuccesses == 2

\* tactics that stay active once their segment is completed
ExpireTacticsNever(tactics, segmentIndex) == tactics

\* tactics.map(t => t.expiresAfterSegment === segmentIndex ? {...t, used: true} : t)
ExpireTactics(tactics, segmentIndex) ==
    [k \in 1..Len(tactics) |->
       IF tactics[k].expiresAfterSegment = segmentIndex
       THEN [tactics[k] EXCEPT !.used = TRUE] ELSE tactics[k]]

\* the segment log's header lines
SegmentHeader(segment, tempBoosts) ==
    <<[line |-> "SEGMENT", index |-> segment.index]>>
    \o (IF DOMAIN tempBoosts # {}
        THEN <<[line |-> "boosts", boosts |-> tempBoosts]>> ELSE <<>>)

\* a level after every survived segment
LevelsUpAlways(successes) == TRUE

\* if (successes >= 2)
LevelsUp(successes) == successes >= LevelUpSuccesses

\* the index moved on by two
AdvanceTwice(segmentIndex) == segmentIndex + 2

\* state.segmentIndex++
Advance(segmentIndex) == segmentIndex + 1

\* the segment log's closing lines
SegmentSummary(done) ==
    <<[line |-> "Summary", successes |-> done.successes,
       mitigated |-> done.mitigated, failures |-> done.failures,
       totalDamage |-> done.totalDamage],
      [line |-> IF LevelsUp(done.successes) THEN "LevelUp" ELSE "NoLevelUp"]>>

\* a return that computes the stats again once the members have their levels
FinishSegmentFreshStats(done) ==
    IF done.dead
    THEN [error |-> FALSE,
          runState |-> [done.state EXCEPT !.eventLog = @ \o done.log],
          segmentLog |-> done.log]
    ELSE With([done.state EXCEPT
                 !.members = IF LevelsUp(done.successes) THEN LevelUpAll(@) ELSE @,
                 !.tactics = ExpireTactics(@, done.state.segmentIndex),
                 !.segmentIndex = Advance(@),
                 !.eventLog = @ \o done.log \o SegmentSummary(done)],
              LAMBDA state :
         [error |-> FALSE,
          runState |-> [state EXCEPT !.stats = computeStats(state, EmptyMap)],
          segmentLog |-> done.log \o SegmentSummary(done)])

\* what simulateSegment returns once the event loop has run
FinishSegment(done) ==
    IF done.dead
    THEN [error |-> FALSE,
          runState |-> [done.state EXCEPT !.eventLog = @ \o done.log],
          segmentLog |-> done.log]
    ELSE [error |-> FALSE,
          runState |->
            [done.state EXCEPT
               !.members = IF LevelsUp(done.successes) THEN LevelUpAll(@) ELSE @,
               !.tactics = ExpireTactics(@, done.state.segmentIndex),
               !.segmentIndex = Advance(@),
               !.eventLog = @ \o done.log \o SegmentSummary(done)],
          segmentLog |-> done.log \o SegmentSummary(done)]

\* simulateSegment(runState, config, rng); error: the throw when the
\* segment is not found. rng is only handed on to resolveEvent.
simulateSegment(runState) ==
    With(SelectSeq(runState.segments, LAMBDA sg : sg.index = runState.segmentIndex),
         LAMBDA found :
    IF Len(found) = 0 THEN [error |-> TRUE]
    ELSE
    With(getTemporaryBoosts(runState), LAMBDA tempBoosts :
    With(computeStats(runState, tempBoosts), LAMBDA stats :
    FinishSegment(
        ProcessEvents([state |-> [runState EXCEPT !.stats = stats],
                       log |-> SegmentHeader(found[1], tempBoosts),
                       successes |-> 0, mitigated |-> 0, failures |-> 0,
                       totalDamage |-> 0, dead |-> FALSE],
                      found[1], stats, Len(found[1].events))))))

\* ------------------------------------------------------------------------
\* engine.ts : getDraftOptions, applyDraftChoice
\* ------------------------------------------------------------------------

\* segmentIndex <= 3 ? 1 : segmentIndex <= 6 ? 2 : 3
Rank1UpTo == 3

Rank2UpTo == 6

\* the ranks moved one segment later
DraftRankLate(segmentIndex) ==
    IF segmentIndex <= Rank1UpTo + 1 THEN 1
    ELSE IF segmentIndex <= Rank2UpTo + 1 THEN 2 ELSE 3

DraftRank(segmentIndex) ==
    IF segmentIndex <= Rank1UpTo THEN 1
    ELSE IF segmentIndex <= Rank2UpTo THEN 2 ELSE 3

\* the tactic pool of getDraftOptions
availableTactics(runState) ==
    LET id == runState.leader.tacticsPoolId
    IN  IF id # "null" /\ id \in DOMAIN tacticPools
        THEN tacticPools[id] \o tacticTemplates
        ELSE tacticTemplates

\* the member pool of getDraftOptions
availableMembers(runState) ==
    SelectSeq(memberTemplates, LAMBDA m : m.rank = DraftRank(runState.segmentIndex))

\* getDraftOptions drawing the gear before the member
getDraftOptionsGearFirst(runState, rng) ==
    With(pick(rng, gearTemplates), LAMBDA g :
    With(pick(g.rng, availableMembers(runState)), LAMBDA m :
    With(pick(m.rng, availableTactics(runState)), LAMBDA t :
    IF PickFailed(g) \/ PickFailed(m) \/ PickFailed(t)
    THEN [error |-> TRUE, options |-> <<>>, rng |-> t.rng]
    ELSE [error |-> FALSE,
          options |-> << [type |-> "member",
                          payload |-> Picked(m, availableMembers(runState))],
                         [type |-> "gear", payload |-> Picked(g, gearTemplates)],
                         [type |-> "tactic",
                          payload |-> Picked(t, availableTactics(runState))] >>,
          rng |-> t.rng])))

\* getDraftOptions(runState, config, rng); error: a pick that throws, with
\* the generator advanced by the picks made before it
getDraftOptions(runState, rng) ==
    With(pick(rng, availableMembers(runState)), LAMBDA m :
    IF PickFailed(m) THEN [error |-> TRUE, options |-> <<>>, rng |-> m.rng]
    ELSE
    With(pick(m.rng, gearTemplates), LAMBDA g :
    IF PickFailed(g) THEN [error |-> TRUE, options |-> <<>>, rng |-> g.rng]
    ELSE
    With(pick(g.rng, availableTactics(runState)), LAMBDA t :
    IF PickFailed(t) THEN [error |-> TRUE, options |-> <<>>, rng |-> t.rng]
    ELSE [error |-> FALSE,
          options |-> << [type |-> "member",
                          payload |-> Picked(m, availableMembers(runState))],
                         [type |-> "gear", payload |-> Picked(g, gearTemplates)],
                         [type |-> "tactic",
                          payload |-> Picked(t, availableTactics(runState))] >>,
          rng |-> t.rng])))

\* the template lists of a RunConfig
Templates(members, gear, tactics, pools) ==
    [memberTemplates |-> members, gearTemplates |-> gear,
     tacticTemplates |-> tactics, tacticPools |-> pools]

\* config.memberTemplates.filter(m => m.rank === rank)
availableMembersOf(config, runState) ==
    SelectSeq(config.memberTemplates,
              LAMBDA m : m.rank = DraftRank(runState.segmentIndex))

\* the leader's pool, when it has one in config.tacticPools, in front of
\* config.tacticTemplates
availableTacticsOf(config, runState) ==
    LET id == runState.leader.tacticsPoolId
    IN  IF id # "null" /\ id \in DOMAIN config.tacticPools
        THEN config.tacticPools[id] \o config.tacticTemplates
        ELSE config.tacticTemplates

\* getDraftOptions(runState, config, rng) reading the template lists of the
\* config it is given
getDraftOptionsOf(config, runState, rng) ==
    With(pick(rng, availableMembersOf(config, runState)), LAMBDA m :
    IF PickFailed(m) THEN [error |-> TRUE, options |-> <<>>, rng |-> m.rng]
    ELSE
    With(pick(m.rng, config.gearTemplates), LAMBDA g :
    IF PickFailed(g) THEN [error |-> TRUE, options |-> <<>>, rng |-> g.rng]
    ELSE
    With(pick(g.rng, availableTacticsOf(config, runState)), LAMBDA t :
    IF PickFailed(t) THEN [error |-> TRUE, options |-> <<>>, rng |-> t.rng]
    ELSE [error |-> FALSE,
          options |-> << [type |-> "member",
                          payload |-> Picked(m, availableMembersOf(config, runState))],
                         [type |-> "gear", payload |-> Picked(g, config.gearTemplates)],
                         [type |-> "tactic",
                          payload |-> Picked(t, availableTacticsOf(config, runState))] >>,
          rng |-> t.rng])))

\* state with its stats recomputed and a line added to its eventLog
Recomputed(state, entry) ==
    [state EXCEPT !.stats = computeStats(state, EmptyMap),
                  !.eventLog = Append(@, entry)]

\* the members state.members.filter(m => m.primaryStats.some(...)) keeps,
\* or all of them when it keeps none
UpgradePool(state, template) ==
    With(SelectSeq(state.members,
                   LAMBDA m : \E k \in 1..Len(m.primaryStats) :
                                Includes(template.primaryStats, m.primaryStats[k])),
         LAMBDA matches : IF Len(matches) > 0 THEN matches ELSE state.members)

\* state.members with the level of every member whose id is targetId raised
Upgraded(state, targetId) ==
    [state EXCEPT !.members =
       [k \in 1..Len(state.members) |->
          IF state.members[k].id = targetId
          THEN [state.members[k] EXCEPT !.level = @ + 1]
          ELSE state.members[k]]]

\* a recruit that starts at level 2
NewMemberLevelTwo(template, id) ==
    [id |-> id, templateId |-> template.id, primaryStats |-> template.primaryStats,
     rank |-> template.rank, baseValue |-> template.baseValue,
     scaling |-> template.scaling, level |-> 2]

\* the MemberInstance of a recruit
NewMember(template, id) ==
    [id |-> id, templateId |-> template.id, primaryStats |-> template.primaryStats,
     rank |-> template.rank, baseValue |-> template.baseValue,
     scaling |-> template.scaling, level |-> 1]

\* case "member" that recruits whatever the slots
ApplyMemberOverSlots(state, template, rng) ==
    With(generateId("member", rng), LAMBDA id :
    [error |-> FALSE,
     runState |-> Recomputed([state EXCEPT !.members =
                                Append(@, NewMember(template, id.value))],
                             [line |-> "recruited", id |-> id.value]),
     rng |-> id.rng])

\* case "member" of applyDraftChoice
ApplyMember(state, template, rng) ==
    IF Len(state.members) >= state.memberSlots
    THEN
    With(UpgradePool(state, template), LAMBDA pool :
    With(pick(rng, pool), LAMBDA p :
    IF PickFailed(p) THEN [error |-> TRUE, runState |-> state, rng |-> p.rng]
    ELSE [error |-> FALSE,
          runState |-> Recomputed(Upgraded(state, Picked(p, pool).id),
                                  [line |-> "trained", id |-> Picked(p, pool).id]),
          rng |-> p.rng]))
    ELSE
    With(generateId("member", rng), LAMBDA id :
    [error |-> FALSE,
     runState |-> Recomputed([state EXCEPT !.members =
                                Append(@, NewMember(template, id.value))],
                             [line |-> "recruited", id |-> id.value]),
     rng |-> id.rng])

\* case "gear" storing an instance of every gear, extra slots and heals too
ApplyGearStoreAll(state, gear, rng) ==
    With(generateId("gear", rng), LAMBDA id :
    [error |-> FALSE,
     runState |-> [state EXCEPT
                     !.memberSlots = IF gear.type = "extra_slot" THEN @ + 1 ELSE @,
                     !.hp = IF gear.type = "heal" /\ state.hp + gear.value < state.maxHp
                            THEN state.hp + gear.value
                            ELSE IF gear.type = "heal" THEN state.maxHp ELSE @,
                     !.gear = Append(@, [id |-> gear.id, type |-> gear.type,
                                         value |-> gear.value,
                                         statType |-> gear.statType,
                                         instanceId |-> id.value, used |-> FALSE]),
                     !.eventLog = Append(@, [line |-> "acquired"])],
     rng |-> id.rng])

\* case "gear" of applyDraftChoice
ApplyGear(state, gear, rng) ==
    IF gear.type = "extra_slot"
    THEN [error |-> FALSE,
          runState |-> [state EXCEPT !.memberSlots = @ + 1,
                                     !.eventLog = Append(@, [line |-> "slot"])],
          rng |-> rng]
    ELSE IF gear.type = "heal"
    THEN [error |-> FALSE,
          runState |-> [state EXCEPT
                          !.hp = IF state.hp + gear.value < state.maxHp
                                 THEN state.hp + gear.value ELSE state.maxHp,
                          !.eventLog = Append(@, [line |-> "heal"])],
          rng |-> rng]
    ELSE IF gear.type = "auto_success"
    THEN
    With(generateId("gear", rng), LAMBDA id :
    [error |-> FALSE,
     runState |-> [state EXCEPT
                     !.gear = Append(@, [id |-> gear.id, type |-> gear.type,
                                         value |-> gear.value,
                                         statType |-> gear.statType,
                                         instanceId |-> id.value, used |-> FALSE]),
                     !.eventLog = Append(@, [line |-> "acquired"])],
     rng |-> id.rng])
    ELSE [error |-> FALSE, runState |-> state, rng |-> rng]

\* Math.floor(tactic.value / 2)
SecondaryDivisor == 2

\* the members with the tactic's stat as a primary stat, or all of them
\* when there is none
BoostPool(state, tactic) ==
    With(SelectSeq(state.members, LAMBDA m : Includes(m.primaryStats, tactic.statType)),
         LAMBDA primaryMatches :
         IF Len(primaryMatches) > 0 THEN primaryMatches ELSE state.members)

\* isPrimary ? tactic.value : Math.floor(tactic.value / 2)
BoostValue(target, tactic) ==
    IF Includes(target.primaryStats, tactic.statType) THEN tactic.value
    ELSE tactic.value \div SecondaryDivisor

\* permanentBoosts with boostValue added to the target's boost of the stat
Boosted(permanentBoosts, targetId, statType, boostValue) ==
    With(IF targetId \in DOMAIN permanentBoosts THEN permanentBoosts[targetId]
         ELSE EmptyMap,
         LAMBDA existingBoosts :
    [id \in DOMAIN permanentBoosts \cup {targetId} |->
       IF id = targetId
       THEN [st \in DOMAIN existingBoosts \cup {statType} |->
               IF st = statType THEN Lookup(existingBoosts, statType) + boostValue
               ELSE existingBoosts[st]]
       ELSE permanentBoosts[id]])

\* case "tactic" of applyDraftChoice
ApplyTactic(state, tactic, rng) ==
    IF tactic.type = "permanent_boost" /\ tactic.statType # "none"
    THEN IF Len(state.members) > 0
         THEN
         With(BoostPool(state, tactic), LAMBDA pool :
         With(pick(rng, pool), LAMBDA p :
         IF PickFailed(p) THEN [error |-> TRUE, runState |-> state, rng |-> p.rng]
         ELSE [error |-> FALSE,
               runState |->
                 [state EXCEPT
                    !.permanentBoosts =
                       Boosted(@, Picked(p, pool).id, tactic.statType,
                               BoostValue(Picked(p, pool), tactic)),
                    !.eventLog = Append(@, [line |-> "boosted",
                                            id |-> Picked(p, pool).id])],
               rng |-> p.rng]))
         ELSE [error |-> FALSE,
               runState |->
                 [state EXCEPT
                    !.leader.baseStats =
                       [st \in DOMAIN state.leader.baseStats \cup {tactic.statType} |->
                          IF st = tactic.statType
                          THEN Lookup(state.leader.baseStats, st) + tactic.value
                          ELSE state.leader.baseStats[st]],
                    !.eventLog = Append(@, [line |-> "leader_trained"])],
               rng |-> rng]
    ELSE IF tactic.type = "next_segment_boost"
    THEN
    With(generateId("tactic", rng), LAMBDA id :
    [error |-> FALSE,
     runState |-> [state EXCEPT
                     !.tactics = Append(@, [id |-> tactic.id, type |-> tactic.type,
                                            value |-> tactic.value,
                                            statType |-> tactic.statType,
                                            instanceId |-> id.value,
                                            expiresAfterSegment |-> state.segmentIndex,
                                            used |-> FALSE]),
                     !.eventLog = Append(@, [line |-> "tactic_active"])],
     rng |-> id.rng])
    ELSE IF tactic.type = "skip_event"
    THEN [error |-> FALSE,
          runState |-> [state EXCEPT !.skipNextEvent = TRUE,
                                     !.eventLog = Append(@, [line |-> "skip_ready"])],
          rng |-> rng]
    ELSE [error |-> FALSE, runState |-> state, rng |-> rng]

\* the number of draft options; choiceIndex < 1 || choiceIndex > 3 is a skip
OptionCount == 3

\* applyDraftChoice taking an index above the options for the last option
applyDraftChoiceClamped(runState, choiceIndex, draftOptions, rng) ==
    IF choiceIndex < 1
    THEN [error |-> FALSE, runState |-> runState, rng |-> rng]
    ELSE LET option == draftOptions[IF choiceIndex > OptionCount THEN OptionCount
                                    ELSE choiceIndex]
         IN  IF option.type = "member" THEN ApplyMember(runState, option.payload, rng)
             ELSE IF option.type = "gear" THEN ApplyGear(runState, option.payload, rng)
             ELSE ApplyTactic(runState, option.payload, rng)

\* applyDraftChoice(runState, choiceIndex, draftOptions, rng)
applyDraftChoice(runState, choiceIndex, draftOptions, rng) ==
    IF choiceIndex < 1 \/ choiceIndex > OptionCount
    THEN [error |-> FALSE, runState |-> runState, rng |-> rng]
    ELSE LET option == draftOptions[choiceIndex]
         IN  IF option.type = "member" THEN ApplyMember(runState, option.payload, rng)
             ELSE IF option.type = "gear" THEN ApplyGear(runState, option.payload, rng)
             ELSE ApplyTactic(runState, option.payload, rng)

\* ------------------------------------------------------------------------
\* engine.ts : isRunOver, scoreRun
\* ------------------------------------------------------------------------

\* runState.segmentIndex > 10
LastSegment == 10

\* the end of the run noticed one segment late
isRunOverLate(runState) ==
    runState.hp <= 0 \/ runState.segmentIndex > LastSegment + 1

isRunOver(runState) == runState.hp <= 0 \/ runState.segmentIndex > LastSegment

\* the weights of scoreRun
SegmentScore == 100

HpScore == 2

MemberScore == 5

VictoryBonus == 500

\* a score with the victory bonus for every run past the last segment, dead
\* or alive
scoreRunBonusForAll(runState) ==
    (runState.segmentIndex - 1) * SegmentScore
    + runState.hp * HpScore
    + (runState.stats.combat + runState.stats.survival
       + runState.stats.social + runState.stats.chaos)
    + SumSeq([k \in 1..Len(runState.members) |-> runState.members[k].level * MemberScore])
    + (IF runState.segmentIndex > LastSegment THEN VictoryBonus ELSE 0)

scoreRun(runState) ==
    (runState.segmentIndex - 1) * SegmentScore
    + runState.hp * HpScore
    + (runState.stats.combat + runState.stats.survival
       + runState.stats.social + runState.stats.chaos)
    + SumSeq([k \in 1..Len(runState.members) |-> runState.members[k].level * MemberScore])
    + (IF runState.hp > 0 /\ runState.segmentIndex > LastSegment
       THEN VictoryBonus ELSE 0)

\* ------------------------------------------------------------------------
\* The callers' inputs
\* ------------------------------------------------------------------------

\* a base HP low enough for a run to end by death inside its first segment
LowBaseHp == 1

\* a base HP high enough for a run to survive all ten segments
HighBaseHp == 400

\* the most draft calls (getDraftOptions, or applyDraftChoice on hand-made
\* options) a freely driven run makes
MaxDrafts == 2

\* the last segment before which a freely driven run drafts
DraftUntil == 2

\* the most simulateSegment calls made on a run that is already over
MaxOverCalls == 1

\* choice indices handed to applyDraftChoice: -1 and 4 (out of range), 0
\* (skip) and 1..3
MaxChoice == 4

Choices == (0 - 1)..MaxChoice

StringSeed(chars) == [str |-> TRUE, chars |-> chars]

NumberSeed(n) == [str |-> FALSE, num |-> n]

\* "test"
SeedTest == StringSeed(<<116, 101, 115, 116>>)

SeedNumber == NumberSeed(42)

\* a seed whose generator gives the same id to the gear of the first two
\* draft phases
SeedTwin == NumberSeed(5611568)

ConfigDefault == [baseHp |-> DefaultBaseHp, leaders |-> leaders,
                  startingMemberIds |-> <<>>]

ConfigLow == [baseHp |-> LowBaseHp, leaders |-> leaders,
              startingMemberIds |-> <<"soldier", "nobody", "scout">>]

ConfigHigh == [baseHp |-> HighBaseHp, leaders |-> leaders,
               startingMemberIds |-> <<"soldier", "bard">>]

\* the arguments of createRun and createRNG: config, leaderId, seed
Setups ==
    { <<ConfigDefault, "warlord", SeedTest>>,
      <<ConfigDefault, "unknown-leader", SeedTest>>,
      <<ConfigLow, "warlord", SeedNumber>>,
      <<ConfigLow, "balanced", SeedTest>>,
      <<ConfigHigh, "balanced", SeedNumber>>,
      <<ConfigHigh, "warlord", SeedTest>>,
      <<ConfigDefault, "warlord", SeedTwin>> }

\* hand-made draft options in the shape getDraftOptions returns: a member,
\* a gear and a tactic template
Offer(m, g, t) ==
    << [type |-> "member", payload |-> m], [type |-> "gear", payload |-> g],
       [type |-> "tactic", payload |-> t] >>

Offers ==
    {Offer(memberTemplates[1], gearTemplates[4], tacticTemplates[9]),
     Offer(memberTemplates[3], gearTemplates[2], tacticTemplates[5]),
     Offer(memberTemplates[5], gearTemplates[1], tacticTemplates[1])}

NoRun == [created |-> FALSE]

NoCall == [op |-> "none"]

NoReplay == [phase |-> "off"]

NoBot == [pc |-> "off"]

Init ==
    /\ \E setup \in Setups :
         /\ catalog = setup[1]
         /\ chosenLeader = setup[2]
         /\ chosenSeed = setup[3]
    /\ phase = "new"
    /\ run = NoRun
    /\ gen = createRNG(chosenSeed)
    /\ pending = <<>>
    /\ drafts = 0
    /\ overCalls = 0
    /\ prev = NoRun
    /\ last = NoCall
    /\ hist = <<>>
    /\ replay = NoReplay
    /\ bot = NoBot

\* ------------------------------------------------------------------------
\* A caller that makes the engine's calls in any order
\* ------------------------------------------------------------------------

\* runState = createRun(config, leaderId, seed)
CreateRun ==
    /\ phase = "new"
    /\ bot.pc = "off"
    /\ \E c \in {createRun(catalog, chosenLeader, chosenSeed)} :
         /\ phase' = IF c.error THEN "failed" ELSE "running"
         /\ run' = IF c.error THEN run ELSE c.runState
         /\ last' = [op |-> "createRun", error |-> c.error]
    /\ prev' = run
    /\ hist' = Append(hist, [op |-> "createRun"])
    /\ UNCHANGED <<catalog, chosenLeader, chosenSeed, gen, pending, drafts, overCalls,
                   replay, bot>>

\* the caller may go on with the first run
Driving == phase = "running" /\ replay.phase = "off" /\ bot.pc = "off"

\* an event resolution that rolls: one draw when any event was resolved
RngAfterEventsRolling(rng, events) == IF events > 0 THEN next(rng) ELSE rng

\* the caller's generator once simulateSegment has resolved events events,
\* or resolveEvent one: simulateSegment only hands rng on to resolveEvent,
\* and resolveEvent calls none of its methods, in the skip branch or after it
RngAfterEvents(rng, events) == rng

\* a call that works on the caller's object: let state = runState
InputAfterCallNoCopy(runState, state) == state

\* the caller's runState object once a call has returned state: resolveEvent,
\* simulateSegment and applyDraftChoice work on { ...runState } and replace
\* the fields they change (gear.map, members.map, tactics.map, [...eventLog],
\* { ...permanentBoosts }, { ...state.leader }) without writing into the
\* objects the input holds
InputAfterCall(runState, state) == runState

\* result = simulateSegment(runState, config, rng); runState = result.runState
SimulateSegment ==
    /\ Driving
    /\ pending = <<>>
    /\ isRunOver(run) => overCalls < MaxOverCalls
    /\ \E r \in {simulateSegment(run)} :
         /\ ~r.error
         /\ run' = r.runState
         /\ last' = [op |-> "simulateSegment", error |-> FALSE,
                     segmentLog |-> r.segmentLog,
                     input |-> InputAfterCall(run, r.runState), rng |-> gen]
         /\ gen' = RngAfterEvents(gen, Len(SelectSeq(r.segmentLog,
                                                     LAMBDA l : l.line = "Event")))
    /\ overCalls' = IF isRunOver(run) THEN overCalls + 1 ELSE overCalls
    /\ prev' = run
    /\ hist' = Append(hist, [op |-> "simulateSegment"])
    /\ UNCHANGED <<catalog, chosenLeader, chosenSeed, phase, pending, drafts,
                   replay, bot>>

\* simulateSegment throws: no segment has the run's segmentIndex
SimulateSegmentThrows ==
    /\ Driving
    /\ pending = <<>>
    /\ last.op # "simulateSegmentThrows"
    /\ simulateSegment(run).error
    /\ last' = [op |-> "simulateSegmentThrows", error |-> TRUE, rng |-> gen]
    /\ prev' = run
    /\ hist' = Append(hist, [op |-> "simulateSegment"])
    /\ UNCHANGED <<catalog, chosenLeader, chosenSeed, phase, run, gen, pending, drafts,
                   overCalls, replay, bot>>

\* options = getDraftOptions(runState, config, rng)
GetDraftOptions ==
    /\ Driving
    /\ pending = <<>>
    /\ drafts < MaxDrafts
    /\ run.segmentIndex <= DraftUntil
    /\ \E d \in {getDraftOptions(run, gen)} :
         /\ pending' = d.options
         /\ gen' = d.rng
         /\ last' = [op |-> "getDraftOptions", error |-> d.error,
                     options |-> d.options, rng |-> gen]
    /\ drafts' = drafts + 1
    /\ prev' = run
    /\ hist' = Append(hist, [op |-> "getDraftOptions"])
    /\ UNCHANGED <<catalog, chosenLeader, chosenSeed, phase, run, overCalls, replay, bot>>

\* a leader fallback that writes state.leader.baseStats in place, and so
\* into the leader object of the config
ConfigAfterChoiceInPlace(config, state) ==
    [config EXCEPT !.leaders =
       [k \in 1..Len(config.leaders) |->
          IF config.leaders[k].id = state.leader.id THEN state.leader
          ELSE config.leaders[k]]]

\* the caller's config once applyDraftChoice has returned state: runState
\* and its leader are copied before they are written ({ ...runState },
\* { ...state.leader, baseStats: { ... } }), so the leader objects of the
\* config are the ones they were
ConfigAfterChoice(config, state) == config

\* runState = applyDraftChoice(runState, choice, options, rng) on the options
\* getDraftOptions returned
ApplyDraftChoice ==
    /\ Driving
    /\ pending # <<>>
    /\ \E choice \in Choices :
         \E a \in {applyDraftChoice(run, choice, pending, gen)} :
           /\ run' = a.runState
           /\ gen' = a.rng
           /\ last' = [op |-> "applyDraftChoice", error |-> a.error,
                       choice |-> choice, options |-> pending, rng |-> gen,
                       input |-> InputAfterCall(run, a.runState)]
           /\ hist' = Append(hist, [op |-> "applyDraftChoice", choice |-> choice])
           /\ catalog' = ConfigAfterChoice(catalog, a.runState)
    /\ pending' = <<>>
    /\ prev' = run
    /\ UNCHANGED <<chosenLeader, chosenSeed, phase, drafts, overCalls, replay, bot>>

\* runState = applyDraftChoice(runState, choice, options, rng) on hand-made
\* options
ApplyOffer ==
    /\ Driving
    /\ pending = <<>>
    /\ drafts < MaxDrafts
    /\ run.segmentIndex <= DraftUntil
    /\ \E offer \in Offers, choice \in 1..OptionCount :
         \E a \in {applyDraftChoice(run, choice, offer, gen)} :
           /\ run' = a.runState
           /\ gen' = a.rng
           /\ last' = [op |-> "applyDraftChoice", error |-> a.error,
                       choice |-> choice, options |-> offer, rng |-> gen,
                       input |-> InputAfterCall(run, a.runState)]
           /\ hist' = Append(hist, [op |-> "applyOffer", choice |-> choice,
                                    options |-> offer])
           /\ catalog' = ConfigAfterChoice(catalog, a.runState)
    /\ drafts' = drafts + 1
    /\ prev' = run
    /\ UNCHANGED <<chosenLeader, chosenSeed, phase, pending, overCalls, replay, bot>>

Next ==
    \/ CreateRun
    \/ SimulateSegment
    \/ SimulateSegmentThrows
    \/ GetDraftOptions
    \/ ApplyDraftChoice
    \/ ApplyOffer

Spec == Init /\ [][Next]_vars

\* ------------------------------------------------------------------------
\* A second, independent run with the same arguments, given the calls of
\* the first one
\* ------------------------------------------------------------------------

\* the second run is created when the first one has just ended:
\* rng = createRNG(seed); runState = createRun(config, leaderId, seed)
StartReplay ==
    /\ Driving
    /\ isRunOver(run)
    /\ last.op = "simulateSegment"
    /\ overCalls = 0
    /\ \E c \in {createRun(catalog, chosenLeader, chosenSeed)} :
         replay' = [phase |-> IF c.error THEN "failed" ELSE "running",
                    run |-> IF c.error THEN NoRun ELSE c.runState,
                    gen |-> createRNG(chosenSeed), pending |-> <<>>, pos |-> 1]
    /\ UNCHANGED <<catalog, chosenLeader, chosenSeed, phase, run, gen, pending, drafts,
                   overCalls, prev, last, hist, bot>>

\* what the call c of the first run returns on the second run r
Replayed(r, c) ==
    IF c.op = "simulateSegment"
    THEN With(simulateSegment(r.run), LAMBDA res :
         IF res.error THEN r ELSE [r EXCEPT !.run = res.runState])
    ELSE IF c.op = "getDraftOptions"
    THEN With(getDraftOptions(r.run, r.gen), LAMBDA d :
         [r EXCEPT !.pending = d.options, !.gen = d.rng])
    ELSE With(applyDraftChoice(r.run, c.choice,
                               IF c.op = "applyOffer" THEN c.options ELSE r.pending,
                               r.gen),
              LAMBDA a : [r EXCEPT !.run = a.runState, !.gen = a.rng,
                                   !.pending = <<>>])

\* the second run makes the next call of the first one
ReplayCall ==
    /\ replay.phase = "running"
    /\ replay.pos < Len(hist)
    /\ replay' = [Replayed(replay, hist[replay.pos + 1]) EXCEPT !.pos = @ + 1]
    /\ catalog' = ConfigAfterChoice(catalog, replay'.run)
    /\ UNCHANGED <<chosenLeader, chosenSeed, phase, run, gen, pending, drafts,
                   overCalls, prev, last, hist, bot>>

NextDet ==
    \/ CreateRun
    \/ SimulateSegment
    \/ SimulateSegmentThrows
    \/ GetDraftOptions
    \/ ApplyDraftChoice
    \/ ApplyOffer
    \/ StartReplay
    \/ ReplayCall

SpecDet == Init /\ [][NextDet]_vars

\* ------------------------------------------------------------------------
\* bot-runner.ts : the strategies and runBot
\* ------------------------------------------------------------------------

\* options.findIndex(o => o.type === type): 0-based, -1 when there is none
FindIndex(options, type) ==
    IF \E k \in 1..Len(options) : options[k].type = type
    THEN (CHOOSE k \in 1..Len(options) :
            /\ options[k].type = type
            /\ \A j \in 1..(k - 1) : options[j].type # type) - 1
    ELSE 0 - 1

\* gearIdx >= 0 ? gearIdx + 1 : 1
IndexOrFirst(options, type) ==
    IF FindIndex(options, type) >= 0 THEN FindIndex(options, type) + 1 ELSE 1

\* the strategies whose choice is a function of the run state, the option
\* types and the segment index
Strategies ==
    {"memberFocus", "gearFocus", "tacticFocus", "balanced", "worstCase", "upgradeHeavy"}

\* strategy.chooseDraft(runState, options, segmentIndex)
chooseDraft(strategy, runState, options, segmentIndex) ==
    IF strategy = "memberFocus"
    THEN IF FindIndex(options, "member") >= 0
            /\ Len(runState.members) < runState.memberSlots
         THEN FindIndex(options, "member") + 1
         ELSE IndexOrFirst(options, "gear")
    ELSE IF strategy = "gearFocus" THEN IndexOrFirst(options, "gear")
    ELSE IF strategy = "tacticFocus" THEN IndexOrFirst(options, "tactic")
    ELSE IF strategy = "balanced"
    THEN IF segmentIndex % 3 = 0 /\ Len(runState.members) < runState.memberSlots
         THEN FindIndex(options, "member") + 1
         ELSE IF segmentIndex % 3 = 1 THEN FindIndex(options, "gear") + 1
         ELSE FindIndex(options, "tactic") + 1
    ELSE IF strategy = "worstCase" THEN 0
    ELSE IF FindIndex(options, "member") >= 0 THEN FindIndex(options, "member") + 1
    ELSE IndexOrFirst(options, "tactic")

\* one draft phase of runBot: getDraftOptions, chooseDraft, applyDraftChoice,
\* runState.stats = computeStats(runState, config)
DraftPhase(runState, rng, strategy, segmentIndex) ==
    With(getDraftOptions(runState, rng), LAMBDA d :
    IF d.error
    THEN [error |-> TRUE, runState |-> runState, rng |-> d.rng,
          options |-> <<>>, choice |-> 0]
    ELSE
    With(chooseDraft(strategy, runState, d.options, segmentIndex), LAMBDA choice :
    With(applyDraftChoice(runState, choice, d.options, d.rng), LAMBDA a :
    IF a.error
    THEN [error |-> TRUE, runState |-> runState, rng |-> a.rng,
          options |-> d.options, choice |-> choice]
    ELSE [error |-> FALSE,
          runState |-> [a.runState EXCEPT !.stats = computeStats(a.runState, EmptyMap)],
          rng |-> a.rng, options |-> d.options, choice |-> choice])))

\* the lines of a segment log that hold the text
CountResults(log, outcome) ==
    Cardinality({k \in 1..Len(log) :
                   log[k].line = "Result" /\ log[k].outcome = outcome})

\* the resolveEvent calls a segment log shows
CountEvents(log) == Cardinality({k \in 1..Len(log) : log[k].line = "Event"})

\* for (let i = 0; i < 3; i++)
InitialDrafts == 3

\* a segment is followed by a draft phase: no break on death, and
\* a draft phase after every survived segment, the tenth included
DraftsAfterEverySegment(runState) == runState.hp > 0

\* if (runState.segmentIndex <= 10)
DraftsAfter(runState) == runState.hp > 0 /\ runState.segmentIndex <= LastSegment

\* const rng = createRNG(rngSeed); let runState = createRun(...)
BotStart ==
    /\ phase = "new"
    /\ bot.pc = "off"
    /\ \E strategy \in Strategies :
         \E c \in {createRun(catalog, chosenLeader, chosenSeed)} :
           /\ phase' = IF c.error THEN "failed" ELSE "running"
           /\ run' = IF c.error THEN run ELSE c.runState
           /\ bot' = [pc |-> IF c.error THEN "threw" ELSE "initial",
                      strategy |-> strategy, i |-> 0, segments |-> 0, events |-> 0,
                      draftPhases |-> 0, successes |-> 0, mitigated |-> 0,
                      failures |-> 0, summary |-> [done |-> FALSE]]
           /\ last' = [op |-> "createRun", error |-> c.error]
    /\ gen' = createRNG(chosenSeed)
    /\ prev' = run
    /\ UNCHANGED <<catalog, chosenLeader, chosenSeed, pending, drafts, overCalls, hist,
                   replay>>

\* one pass of the initial draft loop
BotInitialDraft ==
    /\ bot.pc = "initial"
    /\ \E d \in {DraftPhase(run, gen, bot.strategy, 0)} :
         /\ run' = d.runState
         /\ gen' = d.rng
         /\ bot' = [bot EXCEPT
                      !.pc = IF d.error THEN "threw"
                             ELSE IF bot.i + 1 < InitialDrafts THEN "initial"
                             ELSE "loop",
                      !.i = @ + 1,
                      !.draftPhases = @ + 1]
         /\ last' = [op |-> "draftPhase", error |-> d.error,
                     options |-> d.options, choice |-> d.choice]
         /\ catalog' = ConfigAfterChoice(catalog, d.runState)
    /\ prev' = run
    /\ UNCHANGED <<chosenLeader, chosenSeed, phase, pending, drafts, overCalls,
                   hist, replay>>

\* one pass of the main loop: simulateSegment, the tallies read off the
\* log, the break on death, and the draft phase
BotSegment ==
    /\ bot.pc = "loop"
    /\ ~isRunOver(run)
    /\ \E r \in {simulateSegment(run)} :
         IF r.error
         THEN /\ bot' = [bot EXCEPT !.pc = "threw"]
              /\ last' = [op |-> "simulateSegmentThrows", error |-> TRUE]
              /\ UNCHANGED <<run, gen, catalog>>
         ELSE \E d \in {IF DraftsAfter(r.runState)
                         THEN DraftPhase(r.runState,
                                         RngAfterEvents(gen, CountEvents(r.segmentLog)),
                                         bot.strategy, r.runState.segmentIndex)
                         ELSE [error |-> FALSE, runState |-> r.runState,
                               rng |-> RngAfterEvents(gen, CountEvents(r.segmentLog)),
                               options |-> <<>>, choice |-> 0]} :
                /\ run' = d.runState
                /\ gen' = d.rng
                /\ bot' = [bot EXCEPT
                             !.pc = IF d.error THEN "threw"
                                    ELSE IF r.runState.hp <= 0 THEN "finish"
                                    ELSE "loop",
                             !.segments = @ + 1,
                             !.events = @ + CountEvents(r.segmentLog),
                             !.draftPhases =
                                IF DraftsAfter(r.runState) THEN @ + 1 ELSE @,
                             !.successes = @ + CountResults(r.segmentLog, "SUCCESS"),
                             !.mitigated =
                                @ + CountResults(r.segmentLog, "MITIGATED_FAILURE"),
                             !.failures = @ + CountResults(r.segmentLog, "FAILURE")]
                /\ last' = [op |-> "botSegment", error |-> d.error,
                            segmentLog |-> r.segmentLog, simulated |-> r.runState,
                            options |-> d.options, choice |-> d.choice]
                /\ catalog' = ConfigAfterChoice(catalog, d.runState)
    /\ prev' = run
    /\ UNCHANGED <<chosenLeader, chosenSeed, phase, pending, drafts, overCalls,
                   hist, replay>>

\* while (!isRunOver(runState)) is false
BotLoopExit ==
    /\ bot.pc = "loop"
    /\ isRunOver(run)
    /\ bot' = [bot EXCEPT !.pc = "finish"]
    /\ UNCHANGED <<catalog, chosenLeader, chosenSeed, phase, run, gen, pending, drafts,
                   overCalls, prev, last, hist, replay>>

\* the BotRunSummary runBot returns
BotFinish ==
    /\ bot.pc = "finish"
    /\ bot' = [bot EXCEPT
                 !.pc = "done",
                 !.summary = [done |-> TRUE,
                              success |-> run.hp > 0 /\ run.segmentIndex > LastSegment,
                              segmentReached |-> IF run.segmentIndex < LastSegment
                                                 THEN run.segmentIndex ELSE LastSegment,
                              finalHp |-> run.hp, finalStats |-> run.stats,
                              finalMembers |-> run.members, score |-> scoreRun(run),
                              totalEventsSucceeded |-> bot.successes,
                              totalEventsFailed |-> bot.failures,
                              totalEventsMitigated |-> bot.mitigated]]
    /\ UNCHANGED <<catalog, chosenLeader, chosenSeed, phase, run, gen, pending, drafts,
                   overCalls, prev, last, hist, replay>>

NextBot ==
    \/ BotStart
    \/ BotInitialDraft
    \/ BotSegment
    \/ BotLoopExit
    \/ BotFinish

SpecBot == Init /\ [][NextBot]_vars /\ WF_vars(NextBot)

\* ------------------------------------------------------------------------
\* resolveEvent on its own: every event of a curriculum, against stat
\* vectors below, at and above the thresholds
\* ------------------------------------------------------------------------

\* the run states handed to resolveEvent: a new run, the same with the skip
\* flag set, and the same holding an unused auto-success token
ResolveStates ==
    LET base == createRun(ConfigDefault, "warlord", SeedTest).runState
    IN  {base,
         [base EXCEPT !.skipNextEvent = TRUE],
         [base EXCEPT !.gear = <<[id |-> "auto_combat", type |-> "auto_success",
                                  value |-> 1, statType |-> "combat",
                                  instanceId |-> <<"gear", 1>>, used |-> FALSE]>>]}

\* thresholds run from 3 to 10
ResolveStatValues == {4, 7, 9}

InitResolve ==
    /\ catalog = ConfigDefault
    /\ chosenLeader = "warlord"
    /\ chosenSeed = SeedTest
    /\ phase = "pure"
    /\ run \in ResolveStates
    /\ gen = createRNG(chosenSeed)
    /\ pending = <<>>
    /\ drafts = 0
    /\ overCalls = 0
    /\ prev = NoRun
    /\ \E i \in 1..SegmentCount, e \in 1..EventsPerSegment :
         \E stats \in [StatTypes -> ResolveStatValues] :
           last = [op |-> "input", event |-> run.segments[i].events[e],
                   stats |-> stats]
    /\ hist = <<>>
    /\ replay = NoReplay
    /\ bot = NoBot

\* result = resolveEvent(runState, event, stats, rng)
ResolveEvent ==
    /\ phase = "pure"
    /\ last.op = "input"
    /\ \E r \in {resolveEvent(run, last.event, last.stats)} :
         /\ run' = r.runState
         /\ last' = [op |-> "resolveEvent", event |-> last.event,
                     stats |-> last.stats, outcome |-> r.outcome,
                     damage |-> r.damage, log |-> r.log,
                     input |-> InputAfterCall(run, r.runState), rng |-> gen]
    /\ gen' = RngAfterEvents(gen, 1)
    /\ prev' = run
    /\ UNCHANGED <<catalog, chosenLeader, chosenSeed, phase, pending, drafts,
                   overCalls, hist, replay, bot>>

NextResolve == ResolveEvent

SpecResolve == InitResolve /\ [][NextResolve]_vars

\* ------------------------------------------------------------------------
\* The generator on its own: a caller that makes a few calls on
\* createRNG(seed) and hands it to generateSegments
\* ------------------------------------------------------------------------

\* the most calls made on one generator
MaxCalls == 3

\* "", "test", and integer seeds: 0 (that becomes 1), a negative one, small
\* ones whose products are exact in a double and larger ones
RngSeeds ==
    {StringSeed(<<>>), SeedTest, NumberSeed(0), NumberSeed(0 - 7), SeedNumber,
     SeedTwin, NumberSeed(230538014), NumberSeed(Mask31)}

\* the arguments of nextInt: min and max
IntRanges == {<<0, 0>>, <<1, 6>>, <<0 - 3, 3>>, <<0, 999999>>}

\* the arrays handed to pick
PickLists == {<<>>, <<"a">>, <<"a", "b", "c">>}

\* a generator state kept in one place for all instances
InstanceStateShared(own, other) == other

\* the state a generator reads when it is called, own its field and other the
\* state of another instance: state is a private field of each SeededRNG
InstanceState(own, other) == own

\* configs handed to getDraftOptions: the default lists, members of rank 1
\* only, no gear, no tactic outside the leaders' pools
DraftConfigs ==
    {Templates(memberTemplates, gearTemplates, tacticTemplates, tacticPools),
     Templates(SelectSeq(memberTemplates, LAMBDA m : m.rank = 1), gearTemplates,
               tacticTemplates, tacticPools),
     Templates(memberTemplates, <<>>, tacticTemplates, tacticPools),
     Templates(memberTemplates, gearTemplates, <<>>, tacticPools)}

\* the fields of runState getDraftOptions reads: segmentIndex and leader
DraftStates ==
    {[segmentIndex |-> 1, leader |-> leaders[1]],
     [segmentIndex |-> 4, leader |-> leaders[5]]}

\* the arrays handed to shuffle, one with an element twice
ShuffleLists == {<<>>, <<"a">>, <<"a", "b", "c">>, <<"a", "b", "a", "c">>}

InitRng ==
    /\ catalog = ConfigDefault
    /\ chosenLeader = "warlord"
    /\ chosenSeed \in RngSeeds
    /\ phase = "rng"
    /\ run = NoRun
    /\ gen = createRNG(chosenSeed)
    /\ pending = <<>>
    /\ drafts = 0
    /\ overCalls = 0
    /\ prev = NoRun
    /\ last = NoCall
    /\ hist = <<>>
    /\ replay = [gen |-> createRNG(chosenSeed), last |-> NoCall]
    /\ bot = NoBot

\* v = rng.nextFloat(): the float is last.value / last.over. In this and in
\* the calls below a second generator, created from the same seed and kept
\* in replay, is given the same call after the first.
NextFloat ==
    /\ phase = "rng"
    /\ Len(hist) < MaxCalls
    /\ \E f \in {nextFloat(gen)} :
         /\ gen' = f.rng
         /\ last' = [op |-> "nextFloat", rng |-> gen, value |-> f.value,
                     over |-> Mask31]
    /\ hist' = Append(hist, [op |-> "nextFloat"])
    /\ \E own \in {InstanceState(replay.gen, gen')} :
         \E t \in {nextFloat(own)} :
           replay' = [gen |-> t.rng,
                      last |-> [op |-> "nextFloat", rng |-> own, value |-> t.value,
                                over |-> Mask31]]
    /\ UNCHANGED <<catalog, chosenLeader, chosenSeed, phase, run, pending, drafts,
                   overCalls, prev, bot>>

\* r = rng.nextInt(min, max)
NextInt ==
    /\ phase = "rng"
    /\ Len(hist) < MaxCalls
    /\ \E range \in IntRanges :
         \E i \in {nextInt(gen, range[1], range[2])} :
           /\ gen' = i.rng
           /\ last' = [op |-> "nextInt", rng |-> gen, min |-> range[1],
                       max |-> range[2], value |-> i.value]
           /\ hist' = Append(hist, [op |-> "nextInt", min |-> range[1],
                                    max |-> range[2]])
    /\ \E own \in {InstanceState(replay.gen, gen')} :
         \E t \in {nextInt(own, last'.min, last'.max)} :
           replay' = [gen |-> t.rng,
                      last |-> [op |-> "nextInt", rng |-> own, min |-> last'.min,
                                max |-> last'.max, value |-> t.value]]
    /\ UNCHANGED <<catalog, chosenLeader, chosenSeed, phase, run, pending, drafts,
                   overCalls, prev, bot>>

\* x = rng.pick(array)
Pick ==
    /\ phase = "rng"
    /\ Len(hist) < MaxCalls
    /\ \E array \in PickLists :
         \E p \in {pick(gen, array)} :
           /\ gen' = p.rng
           /\ last' = [op |-> "pick", rng |-> gen, array |-> array,
                       error |-> p.error, undef |-> p.undef, index |-> p.index]
           /\ hist' = Append(hist, [op |-> "pick", array |-> array])
    /\ \E own \in {InstanceState(replay.gen, gen')} :
         \E t \in {pick(own, last'.array)} :
           replay' = [gen |-> t.rng,
                      last |-> [op |-> "pick", rng |-> own, array |-> last'.array,
                                error |-> t.error, undef |-> t.undef,
                                index |-> t.index]]
    /\ UNCHANGED <<catalog, chosenLeader, chosenSeed, phase, run, pending, drafts,
                   overCalls, prev, bot>>

\* segments = generateSegments(rng)
GenerateSegments ==
    /\ phase = "rng"
    /\ Len(hist) < MaxCalls
    /\ \E g \in {generateSegments(gen)} :
         /\ gen' = g.rng
         /\ last' = [op |-> "generateSegments", rng |-> gen, error |-> g.error,
                     segments |-> g.segments]
    /\ hist' = Append(hist, [op |-> "generateSegments"])
    /\ \E own \in {InstanceState(replay.gen, gen')} :
         \E t \in {generateSegments(own)} :
           replay' = [gen |-> t.rng,
                      last |-> [op |-> "generateSegments", rng |-> own,
                                error |-> t.error, segments |-> t.segments]]
    /\ UNCHANGED <<catalog, chosenLeader, chosenSeed, phase, run, pending, drafts,
                   overCalls, prev, bot>>

\* shuffled = rng.shuffle(array)
Shuffle ==
    /\ phase = "rng"
    /\ Len(hist) < MaxCalls
    /\ \E array \in ShuffleLists :
         \E sh \in {shuffle(gen, array)} :
           /\ gen' = sh.rng
           /\ last' = [op |-> "shuffle", rng |-> gen, array |-> array,
                       value |-> sh.value,
                       arrayAfter |-> ArrayAfterShuffle(array, sh.value)]
           /\ hist' = Append(hist, [op |-> "shuffle", array |-> array])
    /\ \E own \in {InstanceState(replay.gen, gen')} :
         \E t \in {shuffle(own, last'.array)} :
           replay' = [gen |-> t.rng,
                      last |-> [op |-> "shuffle", rng |-> own, array |-> last'.array,
                                value |-> t.value,
                                arrayAfter |-> ArrayAfterShuffle(last'.array, t.value)]]
    /\ UNCHANGED <<catalog, chosenLeader, chosenSeed, phase, run, pending, drafts,
                   overCalls, prev, bot>>

\* options = getDraftOptions(runState, config, rng)
DraftOptionsOf ==
    /\ phase = "rng"
    /\ Len(hist) < MaxCalls
    /\ \E config \in DraftConfigs, state \in DraftStates :
         \E d \in {getDraftOptionsOf(config, state, gen)} :
           /\ gen' = d.rng
           /\ last' = [op |-> "getDraftOptionsOf", rng |-> gen, config |-> config,
                       state |-> state, error |-> d.error, options |-> d.options]
           /\ hist' = Append(hist, [op |-> "getDraftOptionsOf", config |-> config,
                                    state |-> state])
    /\ \E own \in {InstanceState(replay.gen, gen')} :
         \E t \in {getDraftOptionsOf(last'.config, last'.state, own)} :
           replay' = [gen |-> t.rng,
                      last |-> [op |-> "getDraftOptionsOf", rng |-> own,
                                config |-> last'.config, state |-> last'.state,
                                error |-> t.error, options |-> t.options]]
    /\ UNCHANGED <<catalog, chosenLeader, chosenSeed, phase, run, pending, drafts,
                   overCalls, prev, bot>>

NextRng ==
    \/ NextFloat
    \/ NextInt
    \/ Pick
    \/ GenerateSegments
    \/ DraftOptionsOf
    \/ Shuffle

SpecRng == InitRng /\ [][NextRng]_vars

\* ------------------------------------------------------------------------
\* Properties
\* ------------------------------------------------------------------------

\* a RunState without its event log
WithoutLog(runState) == [runState EXCEPT !.eventLog = <<>>]

\* the lines of a log of one kind
LinesOf(log, kind) == SelectSeq(log, LAMBDA l : l.line = kind)

\* the damage a segment log reports: the sum over its Result lines
LogDamage(log) ==
    SumSeq([k \in 1..Len(LinesOf(log, "Result")) |-> LinesOf(log, "Result")[k].damage])

\* the second run has repeated every call of the first one
ReplayDone == replay.phase = "running" /\ replay.pos = Len(hist)

LastChoseHeal ==
    /\ last.op = "applyDraftChoice"
    /\ ~last.error
    /\ last.choice \in 1..3
    /\ last.options[last.choice].type = "gear"
    /\ last.options[last.choice].payload.type = "heal"

\* C2: in every state a run reaches 0 <= hp <= maxHp; a segment leaves the
\* HP it found less the damage of its events, floored at 0, and a heal
\* leaves the HP it found plus the gear's value, capped at maxHp.
C2_HpRange ==
    phase = "running" =>
        /\ 0 <= run.hp /\ run.hp <= run.maxHp
        /\ last.op = "simulateSegment" =>
              run.hp = (IF prev.hp > LogDamage(last.segmentLog)
                        THEN prev.hp - LogDamage(last.segmentLog) ELSE 0)
        /\ LastChoseHeal =>
              run.hp = (IF prev.hp + last.options[last.choice].payload.value < prev.maxHp
                        THEN prev.hp + last.options[last.choice].payload.value
                        ELSE prev.maxHp)

\* C2 witness: a wounded fellowship is healed by more than it lost, and
\* ends at maxHp.
C2_Witness ==
    /\ phase = "running"
    /\ LastChoseHeal
    /\ 0 < prev.hp /\ prev.hp < prev.maxHp
    /\ prev.hp + last.options[last.choice].payload.value > prev.maxHp
    /\ run.hp = run.maxHp

\* C3: isRunOver holds exactly when hp <= 0 or segmentIndex > 10; it is
\* false in the state createRun returns, and in every state of a run before
\* the first one with hp <= 0 or segmentIndex > 10.
C3_RunOver ==
    phase = "running" =>
        /\ isRunOver(run) <=> (run.hp <= 0 \/ run.segmentIndex > 10)
        /\ last.op = "createRun" => ~isRunOver(run)
        /\ (last.op # "createRun" /\ prev.hp > 0 /\ prev.segmentIndex <= 10)
              => ~isRunOver(prev)

\* C3 witness: a run that survived its tenth segment is over with HP left.
C3_Witness ==
    /\ phase = "running"
    /\ last.op = "simulateSegment"
    /\ run.segmentIndex = 11
    /\ run.hp > 0
    /\ isRunOver(run)
    /\ ~isRunOver(prev)

\* runBot has returned or thrown
BotEnded == bot.pc \in {"done", "threw"}

\* the draft phases runBot can reach: the initial ones and one after each
\* segment but the last
MostDraftPhases == InitialDrafts + (LastSegment - 1)

\* C4 as stated: runBot simulates at most 10 segments, resolves at most 30
\* events and runs at most 10 draft phases.
C4_TenDraftPhases ==
    bot.pc # "off" =>
        bot.segments <= 10 /\ bot.events <= 30 /\ bot.draftPhases <= 10

\* the segments the bot's fellowship survived with a segment still ahead
BotSurvived ==
    IF run.hp <= 0 THEN bot.segments - 1
    ELSE IF bot.segments < LastSegment THEN bot.segments
    ELSE LastSegment - 1

\* the passes runBot has left at most: the initial drafts still to make, the
\* segments still ahead, the exit from the loop and the summary
BotVariant ==
    CASE bot.pc = "off" -> InitialDrafts + LastSegment + 3
      [] bot.pc = "initial" -> (InitialDrafts - bot.i) + LastSegment + 2
      [] bot.pc = "loop" -> (LastSegment + 1 - run.segmentIndex) + 2
      [] bot.pc = "finish" -> 1
      [] OTHER -> 0

\* C4 amended: runBot with any strategy always ends: each of its passes
\* brings it nearer to its return, which it reaches in at most 16 of them,
\* after at most 10 simulated segments, at most 30 resolved events and at
\* most 12 draft phases, the 3 initial ones before segment 1 and one after
\* each of the segments 1 to 9 the fellowship survives.
C4_BoundedTermination ==
    /\ [](bot.pc # "off" =>
            /\ bot.segments <= 10
            /\ bot.events <= 30
            /\ bot.draftPhases <= MostDraftPhases
            /\ bot.pc \in {"loop", "finish", "done"} =>
                  bot.draftPhases = InitialDrafts + BotSurvived)
    /\ [](BotVariant >= 0 /\ (BotVariant = 0 <=> BotEnded))
    /\ [][BotVariant' < BotVariant]_vars

\* C4 witness: a bot run that won, with 10 segments, 30 events and 12
\* draft phases behind it.
C4_Witness ==
    /\ bot.pc = "done"
    /\ bot.segments = 10
    /\ bot.events = 30
    /\ bot.draftPhases = 12

\* the last call was a simulateSegment that the fellowship survived
Survived == phase = "running" /\ last.op = "simulateSegment" /\ run.hp > 0

\* the events of a segment log that count as successes: the Result lines
\* with outcome SUCCESS and the skipped events
LogSuccesses(log) ==
    Len(SelectSeq(log, LAMBDA l : l.line = "Result" /\ l.outcome = "SUCCESS"))
    + Len(LinesOf(log, "SKIPPED"))

\* every member is the member it was, d levels higher
LevelsMoved(d) ==
    /\ Len(run.members) = Len(prev.members)
    /\ \A k \in 1..Len(run.members) :
         run.members[k] = [prev.members[k] EXCEPT !.level = @ + d]

LastSummary == LinesOf(last.segmentLog, "Summary")[1]

C8_SegmentIndex ==
    phase = "running" =>
        /\ run.segmentIndex \in 1..11
        /\ Survived => run.segmentIndex = prev.segmentIndex + 1
        /\ last.op = "applyDraftChoice" => run.segmentIndex = prev.segmentIndex
        /\ last.op # "createRun" => run.segmentIndex >= prev.segmentIndex

\* C8 witness: the tenth segment survived, segmentIndex has gone from 10 to 11.
C8_Witness ==
    /\ Survived
    /\ prev.segmentIndex = 10
    /\ run.segmentIndex = 11
    /\ \E k \in 1..Len(hist) : hist[k].op \in {"applyDraftChoice", "applyOffer"}

\* the last call was a simulateSegment in which a living fellowship fell
Died ==
    /\ phase = "running"
    /\ last.op = "simulateSegment"
    /\ prev.hp > 0
    /\ run.hp <= 0

\* the position in a log of the header of the last event resolved
LastEventAt(log) ==
    CHOOSE k \in 1..Len(log) :
        /\ log[k].line = "Event"
        /\ \A j \in (k + 1)..Len(log) : log[j].line # "Event"

\* every token marked used by the last call carries the instanceId of an
\* unused token of a stat that the log reports as passed by a token, and
\* every other piece of gear is as it was
TokensAsLogged ==
    /\ Len(run.gear) = Len(prev.gear)
    /\ \A k \in 1..Len(run.gear) :
         \/ run.gear[k] = prev.gear[k]
         \/ /\ ~prev.gear[k].used
            /\ run.gear[k] = [prev.gear[k] EXCEPT !.used = TRUE]
            /\ \E j \in 1..Len(last.segmentLog), g \in 1..Len(prev.gear) :
                  /\ last.segmentLog[j].line = "auto"
                  /\ last.segmentLog[j].stat = prev.gear[g].statType
                  /\ ~prev.gear[g].used
                  /\ prev.gear[g].instanceId = prev.gear[k].instanceId
    /\ Len(LinesOf(last.segmentLog, "auto")) > 0
         => \E k \in 1..Len(run.gear) : run.gear[k] # prev.gear[k]

\* C7: when hp reaches 0 after event j of a segment, simulateSegment
\* resolves no event after j: the log ends with the fall right after event
\* j, whose damage was the one that brought hp to 0; the tokens and the skip
\* flag consumed are those of the events up to j; no member gains a level,
\* no tactic expires, segmentIndex is unchanged, and the run is over.
C7_DeathAborts ==
    Died =>
        LET log == last.segmentLog
            j == Len(LinesOf(log, "Event"))
        IN  /\ j \in 1..3
            /\ \A k \in 1..j : LinesOf(log, "Event")[k].i = k
            /\ log[Len(log)].line = "FALLEN"
            /\ Len(LinesOf(log, "FALLEN")) = 1
            /\ Len(LinesOf(log, "Result")) + Len(LinesOf(log, "SKIPPED")) = j
            /\ LogDamage(log) >= prev.hp
            /\ LogDamage(SubSeq(log, 1, LastEventAt(log) - 1)) < prev.hp
            /\ LinesOf(log, "Summary") = <<>>
            /\ LinesOf(log, "LevelUp") = <<>>
            /\ TokensAsLogged
            /\ run.skipNextEvent =>
                  prev.skipNextEvent /\ LinesOf(log, "SKIPPED") = <<>>
            /\ run.members = prev.members
            /\ run.tactics = prev.tactics
            /\ run.segmentIndex = prev.segmentIndex
            /\ isRunOver(run)

\* C7 witness: the fellowship fell before the third event of a segment,
\* with an unused auto-success token and an unexpired tactic left over.
C7_Witness ==
    /\ Died
    /\ Len(LinesOf(last.segmentLog, "Event")) < 3
    /\ \E k \in 1..Len(run.gear) : ~run.gear[k].used
    /\ \E k \in 1..Len(run.tactics) : ~run.tactics[k].used

\* the position in a log of the header of event i
EventAt(log, i) ==
    CHOOSE k \in 1..Len(log) : log[k].line = "Event" /\ log[k].i = i

\* the lines a log holds for event i, between its header and the next
\* header, the fall or the summary
EventBlock(log, i) ==
    LET ends == {k \in (EventAt(log, i) + 1)..Len(log) :
                   log[k].line \in {"Event", "FALLEN", "Summary"}}
        stop == IF ends = {} THEN Len(log) + 1
                ELSE CHOOSE k \in ends : \A j \in ends : k <= j
    IN  SubSeq(log, EventAt(log, i) + 1, stop - 1)

\* the last call was a simulateSegment on a living fellowship with the skip
\* flag set
SkipUsed ==
    /\ phase = "running"
    /\ last.op = "simulateSegment"
    /\ prev.hp > 0
    /\ prev.skipNextEvent

\* C10: with the skip flag set, by one skip_event tactic or by several, the
\* next event resolved, and no other, is skipped: it counts as a SUCCESS,
\* does no damage, evaluates no check and uses no token; the flag is false
\* afterwards and the event after it is checked as usual.
C10_SingleShotSkip ==
    SkipUsed =>
        LET log == last.segmentLog
        IN  /\ EventBlock(log, 1) = <<[line |-> "SKIPPED"]>>
            /\ Len(LinesOf(log, "SKIPPED")) = 1
            /\ ~run.skipNextEvent
            /\ Len(LinesOf(log, "Event")) >= 2
            /\ LinesOf(EventBlock(log, 2), "check") # <<>>
            /\ Len(LinesOf(EventBlock(log, 2), "Result")) = 1
            /\ TokensAsLogged
            /\ run.hp = (IF prev.hp > LogDamage(log) THEN prev.hp - LogDamage(log) ELSE 0)
            /\ run.hp > 0 =>
                  /\ LastSummary.successes =
                       1 + Len(SelectSeq(log, LAMBDA l : l.line = "Result"
                                                        /\ l.outcome = "SUCCESS"))
                  /\ LastSummary.totalDamage = LogDamage(log)
                  /\ LastSummary.successes + LastSummary.mitigated
                     + LastSummary.failures = 3

\* C10 witness: skip_event was applied twice in a row to a fellowship that
\* holds an unused token; its next segment skipped the first event only.
C10_Witness ==
    /\ SkipUsed
    /\ Len(prev.eventLog) >= 2
    /\ prev.eventLog[Len(prev.eventLog)].line = "skip_ready"
    /\ prev.eventLog[Len(prev.eventLog) - 1].line = "skip_ready"
    /\ Len(LinesOf(last.segmentLog, "Event")) = 3
    /\ Len(LinesOf(last.segmentLog, "SKIPPED")) = 1

\* a second case of C10: the skipped event names a stat for which the
\* fellowship held an unused token, and no token was spent on it.
C10_TokenHeld ==
    /\ SkipUsed
    /\ LinesOf(EventBlock(last.segmentLog, 1), "auto") = <<>>
    /\ \E k \in 1..Len(prev.gear) :
         /\ ~prev.gear[k].used
         /\ prev.gear[k].type = "auto_success"
         /\ Includes(prev.segments[prev.segmentIndex].events[1].checkType,
                     prev.gear[k].statType)

\* the last call was a resolveEvent on an event that is not skipped
Resolved == last.op = "resolveEvent" /\ ~prev.skipNextEvent

\* the check lines of the last resolveEvent
Checks == LinesOf(last.log, "check")

\* the fellowship held an unused token for the stat before the call
HeldToken(stat) ==
    \E k \in 1..Len(prev.gear) :
        /\ prev.gear[k].type = "auto_success"
        /\ prev.gear[k].statType = stat
        /\ ~prev.gear[k].used

\* C9: for a non-skipped event every stat named in the check type is
\* checked once, and is pass when its value is above the threshold, tie when
\* equal, fail when below; the outcome is FAILURE if any stat failed, else
\* MITIGATED_FAILURE if any tied, else SUCCESS, and the damage returned is
\* the entry of the event's damage table for that outcome; a dual check is
\* a SUCCESS only when both stats pass.
C9_Outcome ==
    Resolved =>
        /\ Len(Checks) = Len(last.event.checkType)
        /\ \A k \in 1..Len(Checks) :
             /\ Checks[k].stat = last.event.checkType[k]
             /\ Checks[k].threshold = last.event.thresholds[Checks[k].stat]
             /\ ~HeldToken(Checks[k].stat) => Checks[k].value = last.stats[Checks[k].stat]
             /\ Checks[k].result = "pass" <=> Checks[k].value > Checks[k].threshold
             /\ Checks[k].result = "tie" <=> Checks[k].value = Checks[k].threshold
             /\ Checks[k].result = "fail" <=> Checks[k].value < Checks[k].threshold
        /\ last.outcome = "FAILURE" <=> \E k \in 1..Len(Checks) : Checks[k].result = "fail"
        /\ last.outcome = "MITIGATED_FAILURE" <=>
              /\ \A k \in 1..Len(Checks) : Checks[k].result # "fail"
              /\ \E k \in 1..Len(Checks) : Checks[k].result = "tie"
        /\ last.outcome = "SUCCESS" <=>
              \A k \in 1..Len(Checks) : Checks[k].result = "pass"
        /\ last.outcome = "FAILURE" => last.damage = last.event.damage.failure
        /\ last.outcome = "MITIGATED_FAILURE" => last.damage = last.event.damage.mitigated
        /\ last.outcome = "SUCCESS" => last.damage = last.event.damage.success

\* C9 witness: a dual check with one stat above its threshold and the other
\* below was a FAILURE with the failure damage.
C9_Witness ==
    /\ Resolved
    /\ Len(Checks) = 2
    /\ Checks[1].stat # Checks[2].stat
    /\ \E k \in 1..2 : Checks[k].result = "pass"
    /\ \E k \in 1..2 : Checks[k].result = "fail"
    /\ last.outcome = "FAILURE"
    /\ last.damage = last.event.damage.failure
    /\ last.damage > last.event.damage.mitigated

\* the last call was a simulateSegment
Simulated == phase = "running" /\ last.op = "simulateSegment"

\* the unused auto-success tokens for a stat among some gear
UnusedTokens(gear, stat) ==
    {k \in 1..Len(gear) : /\ gear[k].type = "auto_success"
                          /\ gear[k].statType = stat
                          /\ ~gear[k].used}

\* the checks of a stat a segment log reports
ChecksOf(log, stat) ==
    Len(SelectSeq(log, LAMBDA l : l.line = "check" /\ l.stat = stat))

\* the checks of a stat a segment log reports as passed by a token
AutosOf(log, stat) ==
    Len(SelectSeq(log, LAMBDA l : l.line = "auto" /\ l.stat = stat))

\* C11: every check of a stat for which an unused auto-success token exists
\* uses exactly one such token and is a pass whatever the stat's value; a
\* used token never triggers again; tokens are consumed stat by stat, and
\* the tokens of stats that are not checked stay unused. Over a segment: the
\* tokens of a stat that became used are as many as the checks of that stat,
\* or all the unused ones when the checks are more.
C11_AutoSuccess ==
    Simulated =>
        /\ Len(run.gear) = Len(prev.gear)
        /\ \A k \in 1..Len(run.gear) :
             \/ run.gear[k] = prev.gear[k]
             \/ run.gear[k] = [prev.gear[k] EXCEPT !.used = TRUE]
        /\ \A st \in StatTypes :
             LET had == Cardinality(UnusedTokens(prev.gear, st))
                 checks == ChecksOf(last.segmentLog, st)
                 spent == IF checks < had THEN checks ELSE had
             IN  /\ Cardinality(UnusedTokens(run.gear, st)) = had - spent
                 /\ AutosOf(last.segmentLog, st) = spent
        /\ \A j \in 1..Len(last.segmentLog) :
             last.segmentLog[j].line = "auto" =>
                /\ j < Len(last.segmentLog)
                /\ last.segmentLog[j + 1].line = "check"
                /\ last.segmentLog[j + 1].stat = last.segmentLog[j].stat
                /\ last.segmentLog[j + 1].result = "pass"

\* the last call was a getDraftOptions
Offered == phase = "running" /\ last.op = "getDraftOptions"

\* the element of a pool that the draw leaving the generator in state
\* draw selects: pool[floor(draw / 0x7fffffff * length)]
Drawn(pool, draw) == pool[FloorTimes(draw, Len(pool)) + 1]

\* C12: getDraftOptions returns exactly 3 options, a member, a gear and a
\* tactic in that order, and takes exactly three draws from the generator:
\* the first selects the member, the second the gear, the third the tactic.
C12_DraftOptionShape ==
    Offered =>
        LET d1 == next(last.rng)
            d2 == next(d1)
            d3 == next(d2)
        IN  /\ ~last.error
            /\ Len(last.options) = 3
            /\ last.options[1].type = "member"
            /\ last.options[2].type = "gear"
            /\ last.options[3].type = "tactic"
            /\ last.options[1].payload = Drawn(availableMembers(run), d1)
            /\ last.options[2].payload = Drawn(gearTemplates, d2)
            /\ last.options[3].payload = Drawn(availableTactics(run), d3)
            /\ gen = d3
            /\ run = prev

\* C12 witness: the second getDraftOptions call of a run whose leader has a
\* tactic pool of their own returned three options.
C12_Witness ==
    /\ Offered
    /\ ~last.error
    /\ drafts = 2
    /\ Len(availableTactics(run)) > Len(tacticTemplates)
    /\ Len(pending) = 3
    /\ gen # last.rng

\* the bot's last pass held a draft phase that got its options
BotDrafted == last.op \in {"draftPhase", "botSegment"} /\ last.options # <<>>

\* the segmentIndex of the state handed to getDraftOptions in that phase
BotDraftIndex ==
    IF last.op = "draftPhase" THEN prev.segmentIndex ELSE last.simulated.segmentIndex

\* C13: the member template getDraftOptions offers has rank 1 when
\* segmentIndex <= 3, rank 2 when 4 <= segmentIndex <= 6 and rank 3 when
\* segmentIndex >= 7.
C13_RankGating ==
    BotDrafted =>
        /\ last.options[1].type = "member"
        /\ Includes(memberTemplates, last.options[1].payload)
        /\ BotDraftIndex <= 3 => last.options[1].payload.rank = 1
        /\ (4 <= BotDraftIndex /\ BotDraftIndex <= 6) => last.options[1].payload.rank = 2
        /\ BotDraftIndex >= 7 => last.options[1].payload.rank = 3

\* C13 witness: a rank-3 member is offered before the seventh segment, in a
\* run that was offered a rank-2 member before.
C13_Witness ==
    /\ BotDrafted
    /\ BotDraftIndex = 7
    /\ last.options[1].payload.rank = 3
    /\ bot.draftPhases = InitialDrafts + 6

\* the last call was an applyDraftChoice
Applied == phase = "running" /\ last.op = "applyDraftChoice"

\* the last call was an applyDraftChoice that chose one of the options
Chose == Applied /\ last.choice \in 1..3

\* the option the last applyDraftChoice chose
Chosen == last.options[last.choice]

\* C14: applyDraftChoice with choice index 0, or any index outside 1..3,
\* returns a state equal to its input in every field, takes no draw from the
\* generator, and is never an error.
C14_SkipIsNoOp ==
    (Applied /\ last.choice \notin 1..3) =>
        /\ ~last.error
        /\ run = prev
        /\ gen = last.rng

\* C14 witness: index 4 was chosen among three options one of which would
\* have taken a draw, and nothing changed.
C14_Witness ==
    /\ Applied
    /\ last.choice = 4
    /\ Len(last.options) = 3
    /\ \E k \in 1..3 : /\ last.options[k].type = "gear"
                       /\ last.options[k].payload.type = "auto_success"
    /\ run = prev
    /\ run.hp > 0

\* the last call chose the member option
ChoseMember == Chose /\ Chosen.type = "member"

\* C15: with members.length < memberSlots, choosing the member option
\* appends exactly one new member at level 1 with the template's primary
\* stats, rank, base value and scaling; the members there were and
\* memberSlots are unchanged.
C15_Recruitment ==
    (ChoseMember /\ Len(prev.members) < prev.memberSlots) =>
        LET new == run.members[Len(run.members)]
        IN  /\ ~last.error
            /\ Len(run.members) = Len(prev.members) + 1
            /\ SubSeq(run.members, 1, Len(prev.members)) = prev.members
            /\ new.level = 1
            /\ new.templateId = Chosen.payload.id
            /\ new.primaryStats = Chosen.payload.primaryStats
            /\ new.rank = Chosen.payload.rank
            /\ new.baseValue = Chosen.payload.baseValue
            /\ new.scaling = Chosen.payload.scaling
            /\ run.memberSlots = prev.memberSlots

\* C15 witness: a fellowship whose first member had gained a level
\* recruited another member.
C15_Witness ==
    /\ ChoseMember
    /\ Len(prev.members) >= 1
    /\ Len(prev.members) < prev.memberSlots
    /\ prev.members[1].level > 1
    /\ Len(run.members) = Len(prev.members) + 1
    /\ run.members[Len(run.members)].level = 1

\* C16: with members.length >= memberSlots, choosing the member option
\* creates no member and raises the level of exactly one member by 1, every
\* other member unchanged; the member raised shares a primary stat with
\* the template offered whenever some member does.
C16_SlotFullUpgrade ==
    (ChoseMember /\ Len(prev.members) >= prev.memberSlots) =>
        LET shares(m) == \E k \in 1..Len(m.primaryStats) :
                            Includes(Chosen.payload.primaryStats, m.primaryStats[k])
            raised == {k \in 1..Len(prev.members) : run.members[k] # prev.members[k]}
        IN  /\ ~last.error
            /\ Len(run.members) = Len(prev.members)
            /\ Cardinality(raised) = 1
            /\ \A k \in raised :
                 /\ run.members[k] = [prev.members[k] EXCEPT !.level = @ + 1]
                 /\ (\E j \in 1..Len(prev.members) : shares(prev.members[j]))
                      => shares(prev.members[k])
            /\ run.memberSlots = prev.memberSlots

\* C17: after every applied draft choice, whatever the kind of the option
\* chosen, the stats of the state returned are computeStats of that state
\* with no temporary boosts.
C17_StatsFresh ==
    (Chose /\ ~last.error) => run.stats = computeStats(run, EmptyMap)

\* the last call chose a permanent_boost tactic
ChoseTraining ==
    Chose /\ Chosen.type = "tactic" /\ Chosen.payload.type = "permanent_boost"

\* the permanent boost of a stat that a state holds for a member
BoostOf(state, member, stat) ==
    IF member.id \in DOMAIN state.permanentBoosts
    THEN Lookup(state.permanentBoosts[member.id], stat)
    ELSE 0

\* C18: with at least one member, a permanent_boost tactic targets a member
\* with the tactic's stat as a primary stat if there is one, any member
\* otherwise; the target's boost of that stat grows by the full value when
\* the stat is primary for the target and by floor(value / 2) otherwise, on
\* top of what it was, and no other boost of any member or stat changes.
C18_PermanentBoost ==
    (ChoseTraining /\ Len(prev.members) > 0) =>
        LET tactic == Chosen.payload
            primary(k) == Includes(prev.members[k].primaryStats, tactic.statType)
            gain(k) == IF primary(k) THEN tactic.value ELSE tactic.value \div 2
        IN  /\ ~last.error
            /\ run.members = prev.members
            /\ \E target \in 1..Len(prev.members) :
                 /\ (\E k \in 1..Len(prev.members) : primary(k)) => primary(target)
                 /\ \A k \in 1..Len(prev.members), st \in StatTypes :
                      BoostOf(run, prev.members[k], st)
                        = BoostOf(prev, prev.members[k], st)
                          + (IF k = target /\ st = tactic.statType
                             THEN gain(target) ELSE 0)
                 /\ DOMAIN run.permanentBoosts
                      = DOMAIN prev.permanentBoosts \cup {prev.members[target].id}

ChoseTempBoost ==
    Chose /\ Chosen.type = "tactic" /\ Chosen.payload.type = "next_segment_boost"

\* the percentages of the next_segment_boost tactics of a stat that were
\* chosen for the segment the state is at
TempBoostOf(state, stat) ==
    LET of == SelectSeq(state.tactics,
                        LAMBDA t : /\ t.type = "next_segment_boost"
                                   /\ t.statType = stat
                                   /\ t.expiresAfterSegment = state.segmentIndex)
    IN  SumSeq([k \in 1..Len(of) |-> of[k].value])

\* the last call simulated a segment to its end
Completed == Simulated /\ run.segmentIndex = prev.segmentIndex + 1

\* C20: a next_segment_boost tactic chosen at segmentIndex k is stored with
\* expiresAfterSegment = k and used = FALSE; the stats of the simulation of
\* segment k are the unboosted stats raised by the percentages of the
\* tactics stored for k and by nothing else; when segment k is completed
\* these tactics are marked used, whatever was checked, and the others are
\* left as they were; so a tactic is used exactly when its segment is past.
C20_TemporaryBoost ==
    /\ ChoseTempBoost =>
          /\ ~last.error
          /\ Len(run.tactics) = Len(prev.tactics) + 1
          /\ SubSeq(run.tactics, 1, Len(prev.tactics)) = prev.tactics
          /\ LET new == run.tactics[Len(run.tactics)]
             IN  /\ new.expiresAfterSegment = prev.segmentIndex
                 /\ new.used = FALSE
                 /\ new.type = "next_segment_boost"
                 /\ new.statType = Chosen.payload.statType
                 /\ new.value = Chosen.payload.value
    /\ Simulated =>
          \A st \in StatTypes :
             run.stats[st]
               = (computeStats(prev, EmptyMap)[st] * (100 + TempBoostOf(prev, st)))
                   \div 100
    /\ Completed =>
          /\ Len(run.tactics) = Len(prev.tactics)
          /\ \A k \in 1..Len(run.tactics) :
               run.tactics[k]
                 = IF prev.tactics[k].expiresAfterSegment = prev.segmentIndex
                   THEN [prev.tactics[k] EXCEPT !.used = TRUE]
                   ELSE prev.tactics[k]
    /\ phase = "running" =>
          \A k \in 1..Len(run.tactics) :
             run.tactics[k].used
               <=> run.tactics[k].expiresAfterSegment < run.segmentIndex

\* C20 witness: a completed segment that was simulated with a stat doubled
\* by a tactic and did not check that stat, the tactic marked used by it
\* and an older tactic left used.
C20_Witness ==
    /\ Completed
    /\ Len(prev.tactics) = 2
    /\ prev.tactics[1].used /\ run.tactics[1] = prev.tactics[1]
    /\ ~prev.tactics[2].used /\ run.tactics[2].used
    /\ ChecksOf(last.segmentLog, prev.tactics[2].statType) = 0
    /\ run.stats[prev.tactics[2].statType]
         = 2 * computeStats(prev, EmptyMap)[prev.tactics[2].statType]
    /\ run.stats[prev.tactics[2].statType] > 0

\* the percentages of the unused next_segment_boost tactics of a stat that
\* expire after the segment the state is at, in the order they were chosen
ActivePercents(state, stat) ==
    LET of == SelectSeq(state.tactics,
                        LAMBDA t : /\ t.type = "next_segment_boost"
                                   /\ ~t.used
                                   /\ t.statType = stat
                                   /\ t.expiresAfterSegment = state.segmentIndex)
    IN  [k \in 1..Len(of) |-> of[k].value]

\* C21: the percentages of the tactics active for one stat in one segment
\* are summed and the stat is scaled once: the stats of the segment are
\* floor(base * (1 + sum / 100)), and a stat with no active boost keeps its
\* base value.
C21_AdditiveStacking ==
    Simulated =>
        \A st \in StatTypes :
           LET base == computeStats(prev, EmptyMap)[st]
               sum == SumSeq(ActivePercents(prev, st))
           IN  IF ActivePercents(prev, st) = <<>>
               THEN run.stats[st] = base
               ELSE /\ 100 * run.stats[st] <= base * (100 + sum)
                    /\ base * (100 + sum) < 100 * (run.stats[st] + 1)

\* C21 witness: two tactics of 100 percent were active for one stat, which
\* was tripled, not quadrupled, and another stat had none and kept its value.
C21_Witness ==
    /\ Simulated
    /\ \E st \in StatTypes :
         /\ ActivePercents(prev, st) = <<100, 100>>
         /\ computeStats(prev, EmptyMap)[st] > 0
         /\ run.stats[st] = 3 * computeStats(prev, EmptyMap)[st]
    /\ \E st \in StatTypes :
         /\ ActivePercents(prev, st) = <<>>
         /\ run.stats[st] > 0

\* what a member adds to a stat: baseValue + scaling * (level - 1) and the
\* member's permanent boost when the stat is primary, the boost alone when
\* it is not
MemberShare(state, member, stat) ==
    IF Includes(member.primaryStats, stat)
    THEN member.baseValue + member.scaling * (member.level - 1)
         + BoostOf(state, member, stat)
    ELSE BoostOf(state, member, stat)

\* the leader's base value of a stat and the shares of all the members
Aggregate(state, stat) ==
    Lookup(state.leader.baseStats, stat)
    + SumSeq([k \in 1..Len(state.members) |-> MemberShare(state, state.members[k], stat)])

\* C22: without temporary boosts computeStats gives, for each of the four
\* stats, the leader's base value plus, for every member with the stat as a
\* primary stat, baseValue + scaling * (level - 1) + the member's permanent
\* boost of the stat, plus, for every other member, that member's permanent
\* boost of the stat; createRun and the member choices store this value, and
\* so does a segment simulated with no temporary boost.
C22_StatAggregation ==
    phase = "running" =>
        /\ \A st \in StatTypes : computeStats(run, EmptyMap)[st] = Aggregate(run, st)
        /\ (last.op = "createRun" \/ (ChoseMember /\ ~last.error)) =>
              \A st \in StatTypes : run.stats[st] = Aggregate(run, st)
        /\ (Simulated /\ \A st \in StatTypes : ActivePercents(prev, st) = <<>>) =>
              \A st \in StatTypes : run.stats[st] = Aggregate(prev, st)

\* C22 witness: a segment was simulated without temporary boosts by a
\* fellowship with a member above level 1 and a member boosted in a stat
\* that is not primary for that member.
C22_Witness ==
    /\ Simulated
    /\ \A st \in StatTypes : ActivePercents(prev, st) = <<>>
    /\ \E k \in 1..Len(prev.members) :
         prev.members[k].level > 1 /\ prev.members[k].scaling > 0
    /\ \E k \in 1..Len(prev.members), st \in StatTypes :
         /\ ~Includes(prev.members[k].primaryStats, st)
         /\ BoostOf(prev, prev.members[k], st) > 0
         /\ run.stats[st] >= Lookup(prev.leader.baseStats, st)
                              + BoostOf(prev, prev.members[k], st)

\* runBot has returned its summary
BotDone == bot.pc = "done"

\* C23: the score is 100 * (segmentIndex - 1) + 2 * hp + the sum of the four
\* stats + 5 * the sum of the member levels + 500 when hp > 0 and
\* segmentIndex > 10; of two states at segmentIndex 11 that differ only in
\* hp, 50 against 0, the first scores at least 200 more.
C23_Score ==
    BotDone =>
        /\ bot.summary.score
             = 100 * (run.segmentIndex - 1) + 2 * run.hp
               + SumSeq([k \in 1..Cardinality(StatTypes) |->
                           run.stats[<<"combat", "survival", "social", "chaos">>[k]]])
               + 5 * SumSeq([k \in 1..Len(run.members) |-> run.members[k].level])
               + (IF run.hp > 0 /\ run.segmentIndex > 10 THEN 500 ELSE 0)
        /\ run.segmentIndex = 11 =>
              scoreRun([run EXCEPT !.hp = 50]) >= scoreRun([run EXCEPT !.hp = 0]) + 200

\* C23 witness: runBot scored a run that ended past segment 10 with hp left
\* and members above level 1.
C23_Witness ==
    /\ BotDone
    /\ run.segmentIndex = 11
    /\ run.hp > 0
    /\ \E k \in 1..Len(run.members) : run.members[k].level > 1
    /\ bot.summary.score > 1000 + 2 * run.hp + 500

\* the last call was a createRun that returned a state
Created == phase = "running" /\ last.op = "createRun" /\ ~last.error

\* the leader of the catalog that the caller named
NamedLeader ==
    catalog.leaders[CHOOSE k \in 1..Len(catalog.leaders) :
                      catalog.leaders[k].id = chosenLeader]

\* everything createRun sets but the members
FreshRun ==
    /\ run.segmentIndex = 1
    /\ run.hp = catalog.baseHp + NamedLeader.bonusHp
    /\ run.maxHp = run.hp
    /\ run.leader = NamedLeader
    /\ run.memberSlots = NamedLeader.baseMemberSlots
    /\ run.gear = <<>>
    /\ run.tactics = <<>>
    /\ DOMAIN run.permanentBoosts = {}
    /\ ~run.skipNextEvent
    /\ Len(run.segments) = 10
    /\ run.stats = computeStats(run, EmptyMap)

KnownStartingIds ==
    SelectSeq(catalog.startingMemberIds,
              LAMBDA id : \E k \in 1..Len(memberTemplates) : memberTemplates[k].id = id)

LeaderKnown == \E k \in 1..Len(catalog.leaders) : catalog.leaders[k].id = chosenLeader

\* C25: createRun with a leader id that is not in the catalog fails with an
\* error the caller sees and gives no run state; no other leader is taken in
\* its place, and createRun fails for no known leader.
C25_UnknownLeader ==
    /\ (phase # "new" /\ ~LeaderKnown) => (phase = "failed" /\ run = NoRun)
    /\ last.op = "createRun" => (last.error <=> ~LeaderKnown)
    /\ phase = "running" => (LeaderKnown /\ run.leader.id = chosenLeader)

\* C25 witness: createRun was called with "unknown-leader" and threw.
C25_Witness ==
    /\ last.op = "createRun"
    /\ last.error
    /\ chosenLeader = "unknown-leader"
    /\ phase = "failed"
    /\ run = NoRun

\* the last call was a generateSegments
Generated == last.op = "generateSegments"

\* the stats a check type names are among those of the segment type: the
\* one stat of a single-stat segment, statA, statB or both of a dual one
CheckOfSegment(checkType, type) ==
    IF Len(type) = 1 THEN checkType = type
    ELSE checkType \in {<<type[1]>>, <<type[2]>>, type}

\* C26: for every generator state generateSegments returns exactly 10
\* segments, with the indices 1 to 10 in this order and 3 events each; the
\* events of a single-stat segment all check its stat, those of a dual-stat
\* segment check statA, statB or statA+statB, and every event has a
\* threshold for each stat its check type names.
C26_CurriculumShape ==
    Generated =>
        /\ ~last.error
        /\ Len(last.segments) = 10
        /\ \A i \in 1..Len(last.segments) :
             LET segment == last.segments[i]
             IN  /\ segment.index = i
                 /\ Len(segment.type) \in {1, 2}
                 /\ \A k \in 1..Len(segment.type) : segment.type[k] \in StatTypes
                 /\ Len(segment.events) = 3
                 /\ \A e \in 1..Len(segment.events) :
                      /\ CheckOfSegment(segment.events[e].checkType, segment.type)
                      /\ \A k \in 1..Len(segment.events[e].checkType) :
                           segment.events[e].checkType[k]
                             \in DOMAIN segment.events[e].thresholds

\* C26 witness: a curriculum with a single-stat and a dual-stat segment, the
\* dual one with an event that checks one stat and an event that checks both.
C26_Witness ==
    /\ Generated
    /\ ~last.error
    /\ \E i \in 1..Len(last.segments) : Len(last.segments[i].type) = 1
    /\ \E i \in 1..Len(last.segments) :
         /\ Len(last.segments[i].type) = 2
         /\ \E e \in 1..3 : Len(last.segments[i].events[e].checkType) = 1
         /\ \E e \in 1..3 : Len(last.segments[i].events[e].checkType) = 2

\* C27: the event at position p (0, 1, 2) of segment i has the threshold
\* 3 + p + floor(i / 2) for every stat it checks, and the damage table
\* success 0, mitigated 3 + floor(0.4 * i), failure 7 + i.
C27_Difficulty ==
    (Generated /\ ~last.error) =>
        \A i \in 1..Len(last.segments) :
           \A e \in 1..Len(last.segments[i].events) :
              LET event == last.segments[i].events[e]
                  p == e - 1
              IN  /\ \A st \in DOMAIN event.thresholds :
                       2 * (event.thresholds[st] - (3 + p)) \in {i, i - 1}
                  /\ DOMAIN event.thresholds
                       = {event.checkType[k] : k \in 1..Len(event.checkType)}
                  /\ event.damage.success = 0
                  /\ event.damage.mitigated
                       = 3 + <<0, 0, 1, 1, 2, 2, 2, 3, 3, 4>>[i]
                  /\ event.damage.failure = 7 + i

\* C27 witness: the third event of segment 10 of a curriculum has the
\* threshold 10 and the damage table 0, 7, 17.
C27_Witness ==
    /\ Generated
    /\ ~last.error
    /\ Len(last.segments) = 10
    /\ \A st \in DOMAIN last.segments[10].events[3].thresholds :
         last.segments[10].events[3].thresholds[st] = 10
    /\ last.segments[10].events[3].damage
         = [success |-> 0, mitigated |-> 7, failure |-> 17]

\* the last call was a nextFloat
Drew == last.op = "nextFloat"

\* C28: nextFloat returns v with 0 <= v < 1, and v is the new state of the
\* linear congruential step, (state * 1103515245 + 12345) mod 2^31, divided
\* by the modulus 2^31.
C28_NextFloat ==
    Drew =>
        /\ 0 <= last.value
        /\ last.value < last.over
        /\ last.value = nextWrapExact(last.rng)
        /\ last.over - 1 = Mask31
        /\ gen = last.value

\* the last call was a pick on an array that is not empty
PickedOne == last.op = "pick" /\ last.array # <<>>

\* C29: for min <= max, nextInt(min, max) returns an integer r with
\* min <= r <= max, drawn with one step of the generator; so pick on a
\* non-empty array returns an element of the array, never array[length].
C29_NextIntRange ==
    /\ last.op = "nextInt" =>
          /\ last.min <= last.value
          /\ last.value <= last.max
          /\ gen = next(last.rng)
    /\ PickedOne =>
          /\ ~last.error
          /\ ~last.undef
          /\ last.index \in 1..Len(last.array)
          /\ gen = next(last.rng)

\* C29 witness: nextInt(1, 6) returned 6 from a generator that had been
\* used before.
C29_Witness ==
    /\ last.op = "nextInt"
    /\ last.min = 1
    /\ last.max = 6
    /\ last.value = 6
    /\ Len(hist) > 1

\* a second case of C29: pick returned the last element of an array of three.
C29_PickedLast ==
    /\ PickedOne
    /\ Len(last.array) = 3
    /\ last.index = 3
\* the last call was a pick on an empty array
PickedNone == last.op = "pick" /\ last.array = <<>>

\* the last call was a getDraftOptions
DrewOptions == last.op = "getDraftOptionsOf"

\* the lists the last getDraftOptions had to pick from
MembersOffered ==
    SelectSeq(last.config.memberTemplates,
              LAMBDA m : m.rank = (IF last.state.segmentIndex <= 3 THEN 1
                                   ELSE IF last.state.segmentIndex <= 6 THEN 2 ELSE 3))

TacticsOffered ==
    IF last.state.leader.tacticsPoolId \in DOMAIN last.config.tacticPools
    THEN last.config.tacticPools[last.state.leader.tacticsPoolId]
             \o last.config.tacticTemplates
    ELSE last.config.tacticTemplates

\* C30: pick on an empty array fails with an error, leaves the generator
\* where it was and returns no element; so getDraftOptions fails, with no
\* options, when there is no member template of the rank, no gear or no
\* tactic, the generator advanced only by the picks before the empty one,
\* and it succeeds otherwise.
C30_EmptyPick ==
    /\ PickedNone =>
          /\ last.error
          /\ last.index = 0
          /\ gen = last.rng
    /\ DrewOptions =>
          /\ last.error <=> \/ MembersOffered = <<>>
                            \/ last.config.gearTemplates = <<>>
                            \/ TacticsOffered = <<>>
          /\ last.error => last.options = <<>>
          /\ MembersOffered = <<>> => gen = last.rng
          /\ MembersOffered # <<>> /\ last.config.gearTemplates = <<>> =>
                gen = next(last.rng)
          /\ /\ MembersOffered # <<>>
             /\ last.config.gearTemplates # <<>>
             /\ TacticsOffered = <<>>
             => gen = next(next(last.rng))

\* C30 witness: pick on an empty array, on a generator that has drawn before.
C30_Witness ==
    /\ PickedNone
    /\ last.error
    /\ Len(hist) > 1
    /\ hist[Len(hist) - 1].op = "nextFloat"

\* further cases of C30: getDraftOptions with no member of the rank, with no
\* gear, and with no tactic
C30_NoMember == DrewOptions /\ MembersOffered = <<>> /\ last.error

C30_NoGear == DrewOptions /\ last.config.gearTemplates = <<>> /\ last.error

C30_NoTactic ==
    /\ DrewOptions
    /\ MembersOffered # <<>>
    /\ last.config.gearTemplates # <<>>
    /\ TacticsOffered = <<>>
    /\ last.error

\* the last call was a shuffle
Shuffled == last.op = "shuffle"

\* how many times x is in the sequence
CountIn(seq, x) == Cardinality({k \in 1..Len(seq) : seq[k] = x})

\* C31: shuffle returns a sequence of the length of its input with the same
\* multiset of elements, and leaves the input array as it was.
C31_ShufflePermutation ==
    Shuffled =>
        /\ Len(last.value) = Len(last.array)
        /\ \A x \in {"a", "b", "c", "undefined"} :
              CountIn(last.value, x) = CountIn(last.array, x)
        /\ last.arrayAfter = last.array

\* C31 witness: a shuffle of four elements, one of them twice, that moved
\* some element.
C31_Witness ==
    /\ Shuffled
    /\ Len(last.array) = 4
    /\ last.value # last.array
    /\ gen # last.rng

\* the last call was one of nextFloat, nextInt, shuffle and pick
CalledRng == last.op \in {"nextFloat", "nextInt", "shuffle", "pick"}

ChoseGear == Chose /\ Chosen.type = "gear"

\* C33: choosing an extra_slot gear raises memberSlots by exactly 1 and
\* stores no gear instance; a heal gear stores no gear instance; an
\* auto_success gear appends exactly one instance with used = FALSE to the
\* gear list and changes neither hp nor memberSlots; no gear choice changes
\* members, tactics, permanent boosts or the skip flag.
C33_GearEffects ==
    ChoseGear =>
        /\ ~last.error
        /\ Chosen.payload.type = "extra_slot" =>
              /\ run.memberSlots = prev.memberSlots + 1
              /\ run.gear = prev.gear
        /\ Chosen.payload.type = "heal" => run.gear = prev.gear
        /\ Chosen.payload.type = "auto_success" =>
              /\ Len(run.gear) = Len(prev.gear) + 1
              /\ SubSeq(run.gear, 1, Len(prev.gear)) = prev.gear
              /\ ~run.gear[Len(run.gear)].used
              /\ run.gear[Len(run.gear)].id = Chosen.payload.id
              /\ run.gear[Len(run.gear)].statType = Chosen.payload.statType
              /\ run.hp = prev.hp
              /\ run.memberSlots = prev.memberSlots
        /\ run.members = prev.members
        /\ run.tactics = prev.tactics
        /\ run.permanentBoosts = prev.permanentBoosts
        /\ run.skipNextEvent = prev.skipNextEvent

\* C33 witness: an extra_slot gear chosen by a fellowship that holds a
\* member and an unused token.
C33_Witness ==
    /\ ChoseGear
    /\ Chosen.payload.type = "extra_slot"
    /\ Len(prev.gear) > 0
    /\ Len(prev.members) > 0
    /\ run.memberSlots = prev.memberSlots + 1

\* further cases of C33: a heal and an auto_success gear chosen
C33_Healed == ChoseGear /\ Chosen.payload.type = "heal" /\ run.hp > prev.hp

C33_Acquired ==
    /\ ChoseGear
    /\ Chosen.payload.type = "auto_success"
    /\ Len(prev.gear) > 0
    /\ prev.hp < prev.maxHp

\* the last call was a resolveEvent, a simulateSegment that returned or an
\* applyDraftChoice
TookState ==
    \/ Simulated
    \/ Applied
    \/ phase = "pure" /\ last.op = "resolveEvent"

\* the levels, or the used flags, of a sequence of members, gear or tactics
LevelsOf(members) == [k \in 1..Len(members) |-> members[k].level]

UsedOf(items) == [k \in 1..Len(items) |-> items[k].used]

C34_Expired ==
    /\ Simulated
    /\ run.hp < prev.hp
    /\ UsedOf(run.gear) # UsedOf(prev.gear)
    /\ UsedOf(run.tactics) # UsedOf(prev.tactics)
    /\ UsedOf(last.input.tactics) = UsedOf(prev.tactics)

\* further cases of C34: a training that went to the leader, and a skipped
\* event
C34_Trained ==
    /\ ChoseTraining
    /\ run.leader.baseStats # prev.leader.baseStats
    /\ last.input.leader = prev.leader

C34_Skipped ==
    /\ Simulated
    /\ prev.skipNextEvent
    /\ ~run.skipNextEvent
    /\ last.input.skipNextEvent

\* the stats of the state handed to the last simulateSegment, with the
\* temporary boosts of its segment
SegmentVector == computeStats(prev, getTemporaryBoosts(prev))

\* C35: simulateSegment computes the fellowship stats once, with the
\* segment's temporary boosts, before the first event; every check of its
\* events, 3 of them when the fellowship survives, reads that vector (a token
\* puts threshold + 10 in its place), and the stats of the returned state
\* are that vector, computed before any level-up of the segment.
C35_OneVector ==
    Simulated =>
        /\ run.stats = SegmentVector
        /\ \A k \in 1..Len(last.segmentLog) :
              last.segmentLog[k].line = "check" =>
                 IF k > 1 /\ last.segmentLog[k - 1].line = "auto"
                 THEN last.segmentLog[k].value = last.segmentLog[k].threshold + 10
                 ELSE last.segmentLog[k].value
                        = SegmentVector[last.segmentLog[k].stat]
        /\ Completed => Len(LinesOf(last.segmentLog, "Event")) = 3

\* C35 witness: a segment with a temporary boost whose members levelled up;
\* the stats returned are the boosted ones of before the levels, neither
\* the unboosted ones nor those of the new levels.
C35_Witness ==
    /\ Completed
    /\ DOMAIN getTemporaryBoosts(prev) # {}
    /\ Len(prev.members) > 0
    /\ LevelsMoved(1)
    /\ run.stats = SegmentVector
    /\ run.stats # computeStats(prev, EmptyMap)
    /\ run.stats # computeStats(run, EmptyMap)
    /\ Len(LinesOf(last.segmentLog, "check")) >= 3

\* a run has been created and not lost to an error
Running == phase = "running" /\ run # NoRun

\* C36: in every state reached from createRun by recruiting members through
\* applyDraftChoice, the member instances have pairwise distinct ids.
C36_UniqueMemberIds ==
    Running =>
        \A j, k \in 1..Len(run.members) :
            run.members[j].id = run.members[k].id => j = k

\* the Summary lines of the segment the bot simulated last: one when the
\* fellowship survived it
BotSummaries ==
    IF last.op = "botSegment" THEN LinesOf(last.segmentLog, "Summary") ELSE <<>>

\* C37: the tallies runBot reads off the segment logs are the numbers of
\* events simulateSegment resolved as SUCCESS, MITIGATED_FAILURE and FAILURE:
\* for a survived segment they are the counts of its summary, and over the
\* run their sum is the number of events resolved.
C37_BotCounts ==
    /\ \A k \in 1..Len(BotSummaries) :
          /\ CountResults(last.segmentLog, "SUCCESS") = BotSummaries[k].successes
          /\ CountResults(last.segmentLog, "MITIGATED_FAILURE")
                = BotSummaries[k].mitigated
          /\ CountResults(last.segmentLog, "FAILURE") = BotSummaries[k].failures
    /\ bot.pc \in {"loop", "finish", "done"} =>
          bot.successes + bot.mitigated + bot.failures = bot.events
    /\ bot.pc = "done" =>
          bot.summary.totalEventsSucceeded + bot.summary.totalEventsMitigated
            + bot.summary.totalEventsFailed = bot.events

\* the configured starting members are no more than the leader's slots
StartsWithinSlots == Len(KnownStartingIds) <= NamedLeader.baseMemberSlots

\* C38: when the starting members are no more than the leader's slots, in
\* every state reached from createRun by simulateSegment and
\* applyDraftChoice calls members.length <= memberSlots, and no call lowers
\* memberSlots.
C38_Capacity ==
    (Running /\ StartsWithinSlots) =>
        /\ Len(run.members) <= run.memberSlots
        /\ (Simulated \/ Applied) => run.memberSlots >= prev.memberSlots

\* C38 witness: the member option chosen by a fellowship whose slots were
\* all taken, some of them by starting members.
C38_Witness ==
    /\ ChoseMember
    /\ StartsWithinSlots
    /\ Len(KnownStartingIds) > 0
    /\ Len(prev.members) = prev.memberSlots
    /\ Len(run.members) = run.memberSlots

\* a further case of C38: a slot gained by a fellowship whose slots were all
\* taken
C38_Grown ==
    /\ ChoseGear
    /\ Len(prev.members) = prev.memberSlots
    /\ run.memberSlots > NamedLeader.baseMemberSlots

\* the last call resolved events: a resolveEvent or a simulateSegment that
\* returned
ResolvedEvents == Simulated \/ (phase = "pure" /\ last.op = "resolveEvent")

\* the last call was one that may draw: getDraftOptions or applyDraftChoice
Drafted == last.op \in {"getDraftOptions", "applyDraftChoice"}

C40_RunOverAbsorbing ==
    ((Simulated \/ Applied) /\ isRunOver(prev)) => isRunOver(run)
====
